---- MODULE Spec2Model ----
(***************************************************************************)
(* The three-stage document analysis pipeline (analysis-pipeline.ts) with  *)
(* its stage extractors: business overview, financial metrics and HR       *)
(* insights.  The external generative service is an environment that       *)
(* answers every call with an error or with some text; the extractors turn *)
(* that answer into a value or an exception exactly as their code does.    *)
(*                                                                         *)
(* Quality scores are kept in half points (the code adds 1.5 points per    *)
(* insight), so a score of s points is the integer 2*s here.               *)
(***************************************************************************)
EXTENDS Integers, Sequences, FiniteSets, TLC

\* ------------------------------------------------------------------ bounds
MaxInsights == 4
MaxStreams == 1
MaxAmount == 1

\* ------------------------------------------------------------- primitives
\* a JavaScript null in a `number | null` field
Null == -1

\* parseFloat and parseInt of a text without a digit
NaN == -2

\* value >= bound, false of NaN
AtLeast(value, bound) == value # NaN /\ value >= bound

\* JavaScript truthiness of a `number | null`
Truthy(n) == n # Null /\ n # 0

\* JavaScript truthiness of a string
TruthyStr(s) == s # ""

Min(a, b) == IF a <= b THEN a ELSE b

\* p points, in half points
Pts(p) == 2 * p

Conf == {"high", "medium", "low"}

Stages == 0..2

\* --------------------------------------------------------- business overview
DefaultCompanyOverview == "Unable to extract company overview from document"

DefaultBusinessModel == "Business model extraction failed"

\* the default record both the extractor's catch block and the pipeline build;
\* they differ in extractionQuality.sourceQuality only
FailedOverview(sourceQuality) ==
    [companyOverview |-> DefaultCompanyOverview,
     businessModel |-> DefaultBusinessModel,
     revenueStreams |-> 0,
     industryClassification |-> "Unknown",
     confidence |-> "low",
     sourceQuality |-> sourceQuality]

getDefaultBusinessOverview ==
    FailedOverview("Fallback mode - business overview extraction failed")

NoOverview == FailedOverview("unset")

\* an overview parsed from the service's JSON; revenueStreams is the array's length
Overview(co, bm, rs, cf) ==
    [companyOverview |-> co, businessModel |-> bm, revenueStreams |-> rs,
     industryClassification |-> "stated", confidence |-> cf,
     sourceQuality |-> "document"]

extractBusinessOverviewThrowing(resp) ==
    IF resp.kind = "ok"
    THEN [thrown |-> FALSE, value |-> resp.data]
    ELSE [thrown |-> TRUE, value |-> NoOverview]

\* every failure inside the try block ends in the catch block's default record
extractBusinessOverview(resp) ==
    IF resp.kind = "ok"
    THEN [thrown |-> FALSE, value |-> resp.data]
    ELSE [thrown |-> FALSE, value |-> FailedOverview("Extraction failed")]

\* --------------------------------------------------------- financial metrics
\* a sub-record of FinancialMetrics; def = FALSE is a property the JSON lacks
Revenue(def, current, confidence) ==
    [def |-> def, current |-> current, confidence |-> confidence]

ProfitLoss(def, amount) == [def |-> def, amount |-> amount]

Employees(def, total) == [def |-> def, total |-> total]

Validation(def, crossCheckPassed, flaggedForReview) ==
    [def |-> def, crossCheckPassed |-> crossCheckPassed,
     flaggedForReview |-> flaggedForReview]

NullMetrics(sourceText) ==
    [revenue |-> Revenue(TRUE, Null, "low"),
     profitLoss |-> ProfitLoss(TRUE, Null),
     employees |-> Employees(TRUE, Null),
     validation |-> Validation(TRUE, FALSE, TRUE),
     sourceText |-> sourceText]

createFailsafeMetrics == NullMetrics("Extraction failed")

defaultFinancials == NullMetrics("Unable to extract - using defaults")

NoMetrics == NullMetrics("unset")

\* the object the service's JSON holds, cast to FinancialMetrics unvalidated
Metrics(hasRevenue, hasProfitLoss, hasEmployees, hasValidation, amount, cf, ok) ==
    [revenue |-> IF hasRevenue THEN Revenue(TRUE, amount, cf)
                 ELSE Revenue(FALSE, Null, "low"),
     profitLoss |-> IF hasProfitLoss THEN ProfitLoss(TRUE, amount)
                    ELSE ProfitLoss(FALSE, Null),
     employees |-> IF hasEmployees THEN Employees(TRUE, amount)
                   ELSE Employees(FALSE, Null),
     validation |-> IF hasValidation THEN Validation(TRUE, ok, ~ok)
                    ELSE Validation(FALSE, FALSE, FALSE),
     sourceText |-> "document"]

\* text.match(/\{[\s\S]*\}/) and JSON.parse: json is "none", "invalid" or
\* "object"; format is the shape of the parsed object
\* ("wrapper", "legacy", "direct" or "other")
parseFinancialResponse(text) ==
    IF text.json # "object" THEN createFailsafeMetrics
    ELSE IF text.format \in {"wrapper", "legacy"} THEN text.data
    ELSE IF text.format = "direct"
            /\ (text.data.revenue.def \/ text.data.profitLoss.def)
         THEN text.data
    ELSE createFailsafeMetrics

extractFinancialMetricsThrowing(resp) ==
    IF resp.kind = "error"
    THEN [thrown |-> TRUE, value |-> NoMetrics]
    ELSE [thrown |-> FALSE, value |-> parseFinancialResponse(resp.text)]

\* never throws: the catch block returns the failsafe record
extractFinancialMetrics(resp) ==
    IF resp.kind = "error"
    THEN [thrown |-> FALSE, value |-> createFailsafeMetrics]
    ELSE [thrown |-> FALSE, value |-> parseFinancialResponse(resp.text)]

\* --------------------------------------------------------------- HR insights
\* the four arrays are kept by their lengths
Insights(bc, wi, oc, sp, overallConfidence, dataCompleteness) ==
    [businessContext |-> bc, workforceInsights |-> wi,
     operationalChallenges |-> oc, strategicPeopleInitiatives |-> sp,
     overallConfidence |-> overallConfidence,
     dataCompleteness |-> dataCompleteness]

NoInsights == Insights(0, 0, 0, 0, "unset", "unset")

totalInsights(hr) ==
    hr.businessContext + hr.workforceInsights
    + hr.operationalChallenges + hr.strategicPeopleInitiatives

\* validationConcerns.push on an absent list (a category with fewer than 3
\* insights is reported before the defaults are filled in)
pushOnMissingConcerns(data) ==
    /\ data.quality # "full"
    /\ \/ data.businessContext < 3
       \/ data.workforceInsights < 3
       \/ data.operationalChallenges < 3
       \/ data.strategicPeopleInitiatives < 3

completenessOf(total) ==
    IF total >= 15 THEN "complete"
    ELSE IF total >= 8 THEN "partial"
    ELSE "limited"

\* a catch block that returns empty insights, as the other extractors do
generateHRInsightsDefaulting(resp) ==
    IF resp.kind # "ok" \/ pushOnMissingConcerns(resp.data)
    THEN [thrown |-> FALSE, value |-> Insights(0, 0, 0, 0, "low", "limited")]
    ELSE [thrown |-> FALSE,
          value |-> Insights(resp.data.businessContext,
                             resp.data.workforceInsights,
                             resp.data.operationalChallenges,
                             resp.data.strategicPeopleInitiatives,
                             IF resp.data.quality = "full"
                             THEN resp.data.overallConfidence ELSE "medium",
                             completenessOf(totalInsights(resp.data)))]

\* throws on every failure; a returned value has its four arrays and a
\* complete extractionQuality
generateHRInsights(resp) ==
    IF resp.kind # "ok" \/ pushOnMissingConcerns(resp.data)
    THEN [thrown |-> TRUE, value |-> NoInsights]
    ELSE [thrown |-> FALSE,
          value |-> Insights(resp.data.businessContext,
                             resp.data.workforceInsights,
                             resp.data.operationalChallenges,
                             resp.data.strategicPeopleInitiatives,
                             IF resp.data.quality = "full"
                             THEN resp.data.overallConfidence ELSE "medium",
                             completenessOf(totalInsights(resp.data)))]

\* ------------------------------------------------------------- quality score
businessOverviewPoints(bo) ==
    (IF TruthyStr(bo.companyOverview)
        /\ bo.companyOverview # DefaultCompanyOverview THEN Pts(5) ELSE 0)
    + (IF TruthyStr(bo.businessModel)
          /\ bo.businessModel # DefaultBusinessModel THEN Pts(5) ELSE 0)
    + (IF bo.revenueStreams > 0 THEN Pts(5) ELSE 0)
    + (IF bo.confidence = "high" THEN Pts(5) ELSE 0)

financialMetricsPoints(fm) ==
    (IF Truthy(fm.revenue.current) THEN Pts(10) ELSE 0)
    + (IF fm.revenue.confidence = "high" THEN Pts(5) ELSE 0)
    + (IF Truthy(fm.profitLoss.amount) THEN Pts(10) ELSE 0)
    + (IF Truthy(fm.employees.total) THEN Pts(10) ELSE 0)
    + (IF fm.validation.crossCheckPassed THEN Pts(5) ELSE 0)

\* the quantity points without their cap
insightQuantityPointsUncapped(hr) == 3 * totalInsights(hr)

\* Math.min(20, totalInsights * 1.5), in half points
insightQuantityPoints(hr) == Min(Pts(20), 3 * totalInsights(hr))

hrInsightsPoints(hr) ==
    insightQuantityPoints(hr)
    + (IF hr.overallConfidence = "high" THEN Pts(15)
       ELSE IF hr.overallConfidence = "medium" THEN Pts(8) ELSE 0)
    + (IF hr.dataCompleteness = "complete" THEN Pts(5)
       ELSE IF hr.dataCompleteness = "partial" THEN Pts(3) ELSE 0)

\* Math.min(100, score)
capScore(score) == Min(Pts(100), score)

\* reading a property of an absent sub-record is a TypeError
scoreThrows(fm) ==
    ~(fm.revenue.def /\ fm.profitLoss.def /\ fm.employees.def /\ fm.validation.def)

calculateQualityScore(bo, fm, hr) ==
    IF scoreThrows(fm)
    THEN [thrown |-> TRUE, value |-> 0]
    ELSE [thrown |-> FALSE,
          value |-> capScore(businessOverviewPoints(bo)
                            + financialMetricsPoints(fm)
                            + hrInsightsPoints(hr))]

\* ------------------------------------------------------- the environment
\* the answers of the external service the model draws from, per stage
DocOverviews ==
    {Overview("text", "text", MaxStreams, "high"), Overview("", "text", 0, "medium")}

\* what the service call of Stage 0 can yield: the call rejects ("error"), the
\* text holds no {...} ("no_json"), JSON.parse throws ("bad_json"), the object
\* lacks extractionQuality or revenueStreams ("incomplete"), or it is usable
\* ("ok")
Stage0Responses ==
    {[kind |-> k, data |-> NoOverview] : k \in {"error", "no_json", "bad_json", "incomplete"}}
    \cup {[kind |-> "ok", data |-> o] : o \in DocOverviews}

\* a complete record whose profit is above its revenue
ProfitAboveRevenue ==
    [Metrics(TRUE, TRUE, TRUE, TRUE, MaxAmount, "high", TRUE)
        EXCEPT !.revenue.current = MaxAmount - 1]

DocMetrics ==
    {Metrics(r, p, TRUE, v, MaxAmount, "high", TRUE) : r, p, v \in BOOLEAN}
    \cup {ProfitAboveRevenue}

FinancialTexts ==
    {[json |-> j, format |-> "other", data |-> NoMetrics] : j \in {"none", "invalid"}}
    \cup {[json |-> "object", format |-> f, data |-> d] : f \in {"wrapper", "legacy", "direct", "other"}, d \in DocMetrics}

Stage1Responses ==
    {[kind |-> "error", text |-> [json |-> "none", format |-> "other", data |-> NoMetrics]]}
    \cup {[kind |-> "text", text |-> t] : t \in FinancialTexts}

HRData(n, quality, overallConfidence) ==
    [businessContext |-> n, workforceInsights |-> n, operationalChallenges |-> n,
     strategicPeopleInitiatives |-> n, quality |-> quality,
     overallConfidence |-> overallConfidence]

\* extractionQuality of the parsed object: "missing", "bare" (an object
\* without validationConcerns and overallConfidence) or "full"
DocInsights ==
    {HRData(n, q, "high") : n \in {0, MaxInsights}, q \in {"missing", "bare", "full"}}

Stage2Responses ==
    {[kind |-> k, data |-> HRData(0, "missing", "low")] : k \in {"error", "no_json", "bad_json"}}
    \cup {[kind |-> "ok", data |-> d] : d \in DocInsights}

\* the service call of the stage did not yield usable data of the document
Stage0Failed(resp) == resp.kind # "ok"

Stage1Failed(resp) ==
    resp.kind = "error" \/ parseFinancialResponse(resp.text).sourceText # "document"

Stage2Failed(resp) == resp.kind # "ok" \/ pushOnMissingConcerns(resp.data)

HROutcome(resp) == IF Stage2Failed(resp) THEN "failed" ELSE "succeeded"

\* ------------------------------------------------------------------- state
VARIABLES
    parallelProcessing, \* FEATURES.PARALLEL_PROCESSING
    entry,              \* the exported function the caller invoked
    pc,                 \* the await the run is suspended at, or how it ended
    stageResults,       \* the three measureStage promises of the parallel mode
    businessOverview, financialMetrics, hrInsights,
    stage0Success, stage1Success, stage2Success,
    qualityScore,       \* the logged score, Null before it is computed
    result,             \* the PipelineResult handed to the caller
    parallelError,      \* what made executeStagesParallel throw, "none" if nothing
    error,              \* the Error analyzeDocumentPipeline threw; recovery is set
                        \* once the recovery pass failed as well
    invoked,            \* extractor invocations of the current execution attempt
    serviceFailed,      \* stages whose service call failed in the current attempt
    hrAttempts,         \* the outcome of every generateHRInsights call of the run
    reruns,             \* sequential re-runs after a failed parallel execution
    settleOrder         \* the order in which the parallel stages settled

\* the walk through calculateQualityScore (see QSpec below)
VARIABLES qStep, qScore, qParts, qResult

qvars == <<qStep, qScore, qParts, qResult>>

\* a call of one of the two currency resolutions, of selectBestMatch or of
\* calculateConfidence (see CSpec below)
VARIABLES cMethod, cInput, cResult, sMatches, sBest, kCall, fCall

cvars == <<cMethod, cInput, cResult, sMatches, sBest, kCall, fCall>>

\* a call of a metric extraction of FinancialDataExtractor (see NSpec below),
\* the lastIndex of the module-level fallbackPatterns.revenue, and one
\* earlier call kept for comparison
VARIABLES nMethod, nDoc, nResult, nOutcomes, lastIndex, nSeen

nvars == <<nMethod, nDoc, nResult, nOutcomes, lastIndex, nSeen>>

\* the location of the JSON object in one response text (see JSpec below)
VARIABLES jMethod, jText, jResult, bCall

jvars == <<jMethod, jText, jResult, bCall>>

\* one upload record of the storage and the background analyses started for
\* it (see USpec below)
VARIABLES uStatus, uData, uRuns, uId, currentUploadId

uvars == <<uStatus, uData, uRuns, uId, currentUploadId>>

\* the in-memory fallback queue of analysis-queue.ts (see MSpec below): the
\* job ids of the Map in insertion order, the flag, the jobs inside
\* processAnalysisJob, the pending setTimeout callbacks, and the jobs in the
\* order they were started and were finished
VARIABLES jobs, processing, mActive, mTimers, mStarted, mFinished

mvars == <<jobs, processing, mActive, mTimers, mStarted, mFinished>>


pvars ==
    <<parallelProcessing, entry, pc, stageResults, businessOverview,
      financialMetrics, hrInsights, stage0Success, stage1Success, stage2Success,
      qualityScore, result, parallelError, error, invoked, serviceFailed,
      hrAttempts, reruns, settleOrder>>

Stats(d0, d1, d2, s0, s1, s2, mode, partial) ==
    [stage0Duration |-> d0, stage1Duration |-> d1, stage2Duration |-> d2,
     stage0Success |-> s0, stage1Success |-> s1, stage2Success |-> s2,
     executionMode |-> mode, partialSuccess |-> partial]

PipelineResult(bo, fm, hr, stats) ==
    [businessOverview |-> bo, financialMetrics |-> fm, hrInsights |-> hr,
     processingStats |-> stats]

NoResult ==
    PipelineResult(NoOverview, NoMetrics, NoInsights,
                   Stats("0", "0", "0", FALSE, FALSE, FALSE, "unset", "unset"))

NoError == [stage |-> "none", cause |-> "none", recovery |-> FALSE]

Unset(i) == CASE i = 0 -> NoOverview [] i = 1 -> NoMetrics [] OTHER -> NoInsights

Idle == [i \in Stages |-> [status |-> "idle", result |-> Unset(i)]]

PInit ==
    /\ parallelProcessing \in BOOLEAN
    /\ entry \in {"analyzeDocumentPipeline", "analyzeDocumentWithFallback"}
    /\ pc = "entry"
    /\ stageResults = Idle
    /\ businessOverview = NoOverview
    /\ financialMetrics = NoMetrics
    /\ hrInsights = NoInsights
    /\ stage0Success = FALSE
    /\ stage1Success = FALSE
    /\ stage2Success = FALSE
    /\ qualityScore = Null
    /\ result = NoResult
    /\ parallelError = "none"
    /\ error = NoError
    /\ invoked = [stage0 |-> 0, stage1 |-> 0]
    /\ serviceFailed = {}
    /\ hrAttempts = <<>>
    /\ reruns = 0
    /\ settleOrder = <<>>

\* --------------------------------------------------------------- helpers
\* a measureStage that rejects when the extractor returned its default record
measureStageRejectingDefaults(r, i) ==
    IF \/ r.thrown
       \/ i = 0 /\ r.value.sourceQuality # "document"
       \/ i = 1 /\ r.value.sourceText # "document"
    THEN [status |-> "rejected", result |-> Unset(i)]
    ELSE [status |-> "fulfilled", result |-> r.value]

\* measureStage: the promise fulfils with the stage's result or rejects
measureStage(r, i) ==
    IF r.thrown THEN [status |-> "rejected", result |-> Unset(i)]
    ELSE [status |-> "fulfilled", result |-> r.value]

\* Promise.all instead: resolves once all are fulfilled or one is rejected
allOrFirstRejected(promises) ==
    \/ \A i \in Stages : promises[i].status = "fulfilled"
    \/ \E i \in Stages : promises[i].status = "rejected"

\* Promise.allSettled resolves once none of the promises is pending
allSettled(promises) == \A i \in Stages : promises[i].status \in {"fulfilled", "rejected"}

\* its only recovery from a throwing extractor is the default record; the
\* extractor is invoked exactly once
extractFinancialMetricsRelaxed(resp) ==
    LET r == extractFinancialMetrics(resp)
    IN  IF r.thrown THEN defaultFinancials ELSE r.value

\* the console.log after Stage 1 of the parallel merge reads revenue.current
\* and employees.total
parallelLogThrows(fm) == ~(fm.revenue.def /\ fm.employees.def)

\* the sequential one also reads validation.crossCheckPassed and
\* validation.flaggedForReview
sequentialLogThrows(fm) == ~(fm.revenue.def /\ fm.employees.def /\ fm.validation.def)

\* the stage named in the message of the sequential catch block
failedStage(s0, s1) ==
    IF s0 THEN (IF s1 THEN "hr" ELSE "financial") ELSE "business_overview"

\* a failed run that starts over instead of surfacing its failure
PipelineThrowsRestarting(stage, cause) ==
    /\ error' = [stage |-> stage, cause |-> cause, recovery |-> FALSE]
    /\ pc' = "entry"
    /\ invoked' = [stage0 |-> 0, stage1 |-> 0]
    /\ serviceFailed' = {}

\* a recovery pass whichever function the caller invoked
PipelineThrowsRecovering(stage, cause) ==
    /\ error' = [stage |-> stage, cause |-> cause, recovery |-> FALSE]
    /\ pc' = "recovery0"
    /\ invoked' = [stage0 |-> 1, stage1 |-> 0]
    /\ serviceFailed' = {}

\* analyzeDocumentPipeline throws: to the caller, or into the catch block of
\* analyzeDocumentWithFallback, which starts its recovery pass
PipelineThrows(stage, cause) ==
    /\ error' = [stage |-> stage, cause |-> cause, recovery |-> FALSE]
    /\ IF entry = "analyzeDocumentWithFallback"
       THEN /\ pc' = "recovery0"
            /\ invoked' = [stage0 |-> 1, stage1 |-> 0]
            /\ serviceFailed' = {}
       ELSE /\ pc' = "thrown"
            /\ UNCHANGED <<invoked, serviceFailed>>

\* ------------------------------------------------------------ parallel mode
\* executeStagesParallel up to its await: the three measureStage calls of the
\* array literal each run their extractor up to its service call
StartParallel ==
    /\ pc = "entry"
    /\ parallelProcessing
    /\ pc' = "parallel"
    /\ stageResults' = [i \in Stages |-> [status |-> "pending", result |-> Unset(i)]]
    /\ invoked' = [stage0 |-> 1, stage1 |-> 1]
    /\ UNCHANGED <<parallelProcessing, entry, businessOverview, financialMetrics,
                   hrInsights, stage0Success, stage1Success, stage2Success,
                   qualityScore, result, parallelError, error, serviceFailed,
                   hrAttempts, reruns>>
    /\ UNCHANGED <<settleOrder, qvars, cvars, nvars, jvars, uvars, mvars>>

SettleStage0 ==
    /\ pc = "parallel"
    /\ stageResults[0].status = "pending"
    /\ \E resp \in Stage0Responses :
         /\ stageResults' =
              [stageResults EXCEPT ![0] = measureStage(extractBusinessOverview(resp), 0)]
         /\ serviceFailed' =
              IF Stage0Failed(resp) THEN serviceFailed \cup {0} ELSE serviceFailed
    /\ UNCHANGED <<parallelProcessing, entry, pc, businessOverview, financialMetrics,
                   hrInsights, stage0Success, stage1Success, stage2Success,
                   qualityScore, result, parallelError, error, invoked, hrAttempts,
                   reruns>>
    /\ settleOrder' = Append(settleOrder, 0)
    /\ UNCHANGED <<qvars, cvars, nvars, jvars, uvars, mvars>>

SettleStage1 ==
    /\ pc = "parallel"
    /\ stageResults[1].status = "pending"
    /\ \E resp \in Stage1Responses :
         /\ stageResults' =
              [stageResults EXCEPT ![1] = measureStage(extractFinancialMetrics(resp), 1)]
         /\ serviceFailed' =
              IF Stage1Failed(resp) THEN serviceFailed \cup {1} ELSE serviceFailed
    /\ UNCHANGED <<parallelProcessing, entry, pc, businessOverview, financialMetrics,
                   hrInsights, stage0Success, stage1Success, stage2Success,
                   qualityScore, result, parallelError, error, invoked, hrAttempts,
                   reruns>>
    /\ settleOrder' = Append(settleOrder, 1)
    /\ UNCHANGED <<qvars, cvars, nvars, jvars, uvars, mvars>>

SettleStage2 ==
    /\ pc = "parallel"
    /\ stageResults[2].status = "pending"
    /\ \E resp \in Stage2Responses :
         LET r == generateHRInsights(resp)
         IN  /\ stageResults' = [stageResults EXCEPT ![2] = measureStage(r, 2)]
             /\ hrAttempts' = Append(hrAttempts, HROutcome(resp))
    /\ UNCHANGED <<parallelProcessing, entry, pc, businessOverview, financialMetrics,
                   hrInsights, stage0Success, stage1Success, stage2Success,
                   qualityScore, result, parallelError, error, invoked,
                   serviceFailed, reruns>>
    /\ settleOrder' = Append(settleOrder, 2)
    /\ UNCHANGED <<qvars, cvars, nvars, jvars, uvars, mvars>>

\* the code after the await of Promise.allSettled, up to the return, or up to
\* the await of Stage 0 of the sequential execution that follows every throw
\* (the catch blocks of executeStagesParallel and of analyzeDocumentPipeline).
\* resp answers the extractor call of extractFinancialMetricsRelaxed, which
\* runs for a rejected Stage 1 before Stage 2 is looked at.
MergeParallel ==
    /\ pc = "parallel"
    /\ allSettled(stageResults)
    /\ \E resp \in Stage1Responses :
         LET s0 == stageResults[0]
             s1 == stageResults[1]
             s2 == stageResults[2]
             ok0 == s0.status = "fulfilled"
             ok1 == s1.status = "fulfilled"
             ok2 == s2.status = "fulfilled"
             bo == IF ok0 THEN s0.result ELSE getDefaultBusinessOverview
             logThrows == ok1 /\ parallelLogThrows(s1.result)
             fm == IF ok1 THEN s1.result ELSE extractFinancialMetricsRelaxed(resp)
             partialSuccess == ~ok0 \/ ~ok1
             score == calculateQualityScore(bo, fm, s2.result)
             cause == IF logThrows THEN "log"
                      ELSE IF ~ok2 THEN "generateHRInsights"
                      ELSE IF score.thrown THEN "calculateQualityScore"
                      ELSE "none"
         IN  IF cause = "none"
             THEN /\ pc' = "returned"
                  /\ qualityScore' = score.value
                  /\ result' =
                       PipelineResult(bo, fm, s2.result,
                         Stats(IF ok0 THEN "elapsed" ELSE "0",
                               IF ok1 THEN "elapsed" ELSE "0", "elapsed",
                               ok0, ok1, ok2, "parallel",
                               IF partialSuccess THEN "true" ELSE "false"))
                  /\ invoked' = [invoked EXCEPT !.stage1 = IF ok1 THEN @ ELSE @ + 1]
                  /\ serviceFailed' =
                       IF ~ok1 /\ Stage1Failed(resp) THEN serviceFailed \cup {1}
                       ELSE serviceFailed
                  /\ UNCHANGED <<parallelError, reruns, stageResults>>
             ELSE /\ pc' = "sequential0"
                  /\ parallelError' = cause
                  /\ reruns' = reruns + 1
                  /\ invoked' = [stage0 |-> 1, stage1 |-> 0]
                  /\ serviceFailed' = {}
                  /\ stageResults' = Idle
                  /\ UNCHANGED <<qualityScore, result>>
    /\ UNCHANGED <<parallelProcessing, entry, businessOverview,
                   financialMetrics, hrInsights, stage0Success, stage1Success,
                   stage2Success, error, hrAttempts>>
    /\ UNCHANGED <<settleOrder, qvars, cvars, nvars, jvars, uvars, mvars>>

\* ---------------------------------------------------------- sequential mode
\* the feature flag is off: the sequential code runs up to the await of Stage 0
StartSequential ==
    /\ pc = "entry"
    /\ ~parallelProcessing
    /\ pc' = "sequential0"
    /\ invoked' = [stage0 |-> 1, stage1 |-> 0]
    /\ UNCHANGED <<parallelProcessing, entry, stageResults, businessOverview,
                   financialMetrics, hrInsights, stage0Success, stage1Success,
                   stage2Success, qualityScore, result, parallelError, error,
                   serviceFailed, hrAttempts, reruns>>
    /\ UNCHANGED <<settleOrder, qvars, cvars, nvars, jvars, uvars, mvars>>

\* Stage 0 answers; the code runs up to the await of Stage 1
SequentialStage0 ==
    /\ pc = "sequential0"
    /\ \E resp \in Stage0Responses :
         LET r == extractBusinessOverview(resp)
         IN  IF r.thrown
             THEN /\ PipelineThrows(failedStage(stage0Success, stage1Success),
                                    "extractBusinessOverview")
                  /\ UNCHANGED <<businessOverview, stage0Success>>
             ELSE /\ businessOverview' = r.value
                  /\ stage0Success' = TRUE
                  /\ pc' = "sequential1"
                  /\ invoked' = [invoked EXCEPT !.stage1 = @ + 1]
                  /\ serviceFailed' =
                       IF Stage0Failed(resp) THEN serviceFailed \cup {0}
                       ELSE serviceFailed
                  /\ UNCHANGED error
    /\ UNCHANGED <<parallelProcessing, entry, stageResults, financialMetrics,
                   hrInsights, stage1Success, stage2Success, qualityScore, result,
                   parallelError, hrAttempts, reruns>>
    /\ UNCHANGED <<settleOrder, qvars, cvars, nvars, jvars, uvars, mvars>>

\* Stage 1 answers; the code logs the metrics and runs up to the await of Stage 2
SequentialStage1 ==
    /\ pc = "sequential1"
    /\ \E resp \in Stage1Responses :
         LET r == extractFinancialMetrics(resp)
         IN  IF r.thrown
             THEN /\ PipelineThrows(failedStage(stage0Success, stage1Success),
                                    "extractFinancialMetrics")
                  /\ UNCHANGED <<financialMetrics, stage1Success>>
             ELSE /\ financialMetrics' = r.value
                  /\ stage1Success' = TRUE
                  /\ IF sequentialLogThrows(r.value)
                     THEN PipelineThrows(failedStage(stage0Success, TRUE), "log")
                     ELSE /\ pc' = "sequential2"
                          /\ serviceFailed' =
                               IF Stage1Failed(resp) THEN serviceFailed \cup {1}
                               ELSE serviceFailed
                          /\ UNCHANGED <<error, invoked>>
    /\ UNCHANGED <<parallelProcessing, entry, stageResults, businessOverview,
                   hrInsights, stage0Success, stage2Success, qualityScore, result,
                   parallelError, hrAttempts, reruns>>
    /\ UNCHANGED <<settleOrder, qvars, cvars, nvars, jvars, uvars, mvars>>

\* Stage 2 answers; the score is computed and logged and the result returned
SequentialStage2 ==
    /\ pc = "sequential2"
    /\ \E resp \in Stage2Responses :
         LET r == generateHRInsights(resp)
             score == calculateQualityScore(businessOverview, financialMetrics, r.value)
         IN  /\ hrAttempts' = Append(hrAttempts, HROutcome(resp))
             /\ IF r.thrown
                THEN /\ PipelineThrows(failedStage(stage0Success, stage1Success),
                                       "generateHRInsights")
                     /\ UNCHANGED <<hrInsights, stage2Success, qualityScore, result>>
                ELSE /\ hrInsights' = r.value
                     /\ stage2Success' = TRUE
                     /\ IF score.thrown
                        THEN /\ PipelineThrows(failedStage(stage0Success, stage1Success),
                                               "calculateQualityScore")
                             /\ UNCHANGED <<qualityScore, result>>
                        ELSE /\ pc' = "returned"
                             /\ qualityScore' = score.value
                             /\ result' =
                                  PipelineResult(businessOverview, financialMetrics,
                                    r.value,
                                    Stats("elapsed", "elapsed", "elapsed",
                                          stage0Success, stage1Success, TRUE,
                                          "sequential", "absent"))
                             /\ UNCHANGED <<error, invoked, serviceFailed>>
    /\ UNCHANGED <<parallelProcessing, entry, stageResults, businessOverview,
                   financialMetrics, stage0Success, stage1Success, parallelError,
                   reruns>>
    /\ UNCHANGED <<settleOrder, qvars, cvars, nvars, jvars, uvars, mvars>>


\* ------------------------------------------- analyzeDocumentWithFallback
\* the recovery pass: the overview, defaulted when the extractor throws
RecoveryStage0 ==
    /\ pc = "recovery0"
    /\ \E resp \in Stage0Responses :
         LET r == extractBusinessOverview(resp)
         IN  /\ businessOverview' =
                  IF r.thrown THEN getDefaultBusinessOverview ELSE r.value
             /\ serviceFailed' =
                  IF Stage0Failed(resp) THEN serviceFailed \cup {0} ELSE serviceFailed
    /\ pc' = "recovery1"
    /\ invoked' = [invoked EXCEPT !.stage1 = @ + 1]
    /\ UNCHANGED <<parallelProcessing, entry, stageResults, financialMetrics,
                   hrInsights, stage0Success, stage1Success, stage2Success,
                   qualityScore, result, parallelError, error, hrAttempts, reruns>>
    /\ UNCHANGED <<settleOrder, qvars, cvars, nvars, jvars, uvars, mvars>>

RecoveryStage1 ==
    /\ pc = "recovery1"
    /\ \E resp \in Stage1Responses :
         /\ financialMetrics' = extractFinancialMetricsRelaxed(resp)
         /\ serviceFailed' =
              IF Stage1Failed(resp) THEN serviceFailed \cup {1} ELSE serviceFailed
    /\ pc' = "recovery2"
    /\ UNCHANGED <<parallelProcessing, entry, stageResults, businessOverview,
                   hrInsights, stage0Success, stage1Success, stage2Success,
                   qualityScore, result, parallelError, error, invoked, hrAttempts,
                   reruns>>
    /\ UNCHANGED <<settleOrder, qvars, cvars, nvars, jvars, uvars, mvars>>

\* the result of the recovery pass carries fixed statistics; a failure is
\* thrown with the message of the primary pipeline's error
RecoveryStage2 ==
    /\ pc = "recovery2"
    /\ \E resp \in Stage2Responses :
         LET r == generateHRInsights(resp)
         IN  /\ hrAttempts' = Append(hrAttempts, HROutcome(resp))
             /\ IF r.thrown
                THEN /\ pc' = "thrown"
                     /\ error' = [error EXCEPT !.recovery = TRUE]
                     /\ UNCHANGED <<hrInsights, result>>
                ELSE /\ pc' = "returned"
                     /\ hrInsights' = r.value
                     /\ result' =
                          PipelineResult(businessOverview, financialMetrics, r.value,
                            Stats("0", "0", "0", TRUE, TRUE, TRUE, "absent", "absent"))
                     /\ UNCHANGED error
    /\ UNCHANGED <<parallelProcessing, entry, stageResults, businessOverview,
                   financialMetrics, stage0Success, stage1Success, stage2Success,
                   qualityScore, parallelError, invoked, serviceFailed, reruns>>
    /\ UNCHANGED <<settleOrder, qvars, cvars, nvars, jvars, uvars, mvars>>

PNext ==
    \/ StartParallel
    \/ SettleStage0
    \/ SettleStage1
    \/ SettleStage2
    \/ MergeParallel
    \/ StartSequential
    \/ SequentialStage0
    \/ SequentialStage1
    \/ SequentialStage2
    \/ RecoveryStage0
    \/ RecoveryStage1
    \/ RecoveryStage2

\* ------------------------------------------- calculateQualityScore alone
\* every well-typed argument of calculateQualityScore within the bounds
AllOverviews ==
    {Overview(co, bm, rs, cf) :
        co \in {DefaultCompanyOverview, "", "text"},
        bm \in {DefaultBusinessModel, "", "text"},
        rs \in 0..MaxStreams, cf \in Conf}
    \cup {getDefaultBusinessOverview, FailedOverview("Extraction failed")}

AllMetrics ==
    {[revenue |-> Revenue(TRUE, c, cf), profitLoss |-> ProfitLoss(TRUE, a),
      employees |-> Employees(TRUE, t), validation |-> Validation(TRUE, ok, fl),
      sourceText |-> "document"] :
        c \in {Null} \cup (0..MaxAmount), a \in {Null} \cup (0..MaxAmount),
        t \in {Null} \cup (0..MaxAmount), cf \in Conf,
        ok \in BOOLEAN, fl \in BOOLEAN}
    \cup {createFailsafeMetrics, defaultFinancials}
    \cup DocMetrics

AllInsights ==
    {Insights(bc, wi, oc, sp, cf, dc) :
        bc \in 0..MaxInsights, wi \in 0..MaxInsights, oc \in 0..MaxInsights,
        sp \in 0..MaxInsights, cf \in Conf,
        dc \in {"complete", "partial", "limited"}}

\* calculateQualityScore is straight-line code that adds to `score`; the walk
\* follows it block by block, each block taking any value of its argument, so
\* that every combination of the three arguments is covered
QIdle ==
    /\ qStep = "business"
    /\ qScore = 0
    /\ qParts = [business |-> 0, financial |-> 0, hr |-> 0]
    /\ qResult = Null

QBusiness ==
    /\ qStep = "business"
    /\ \E bo \in AllOverviews :
         /\ qScore' = qScore + businessOverviewPoints(bo)
         /\ qParts' = [qParts EXCEPT !.business = businessOverviewPoints(bo)]
    /\ qStep' = "financial"
    /\ UNCHANGED <<qResult, pvars, cvars, nvars, jvars, uvars, mvars>>

QFinancial ==
    /\ qStep = "financial"
    /\ \E fm \in AllMetrics :
         IF scoreThrows(fm)
         THEN /\ qStep' = "thrown"
              /\ UNCHANGED <<qScore, qParts>>
         ELSE /\ qScore' = qScore + financialMetricsPoints(fm)
              /\ qParts' = [qParts EXCEPT !.financial = financialMetricsPoints(fm)]
              /\ qStep' = "hr"
    /\ UNCHANGED <<qResult, pvars, cvars, nvars, jvars, uvars, mvars>>

QInsights ==
    /\ qStep = "hr"
    /\ \E hr \in AllInsights :
         /\ qScore' = qScore + hrInsightsPoints(hr)
         /\ qParts' = [qParts EXCEPT !.hr = hrInsightsPoints(hr)]
    /\ qStep' = "return"
    /\ UNCHANGED <<qResult, pvars, cvars, nvars, jvars, uvars, mvars>>

QReturn ==
    /\ qStep = "return"
    /\ qResult' = capScore(qScore)
    /\ qStep' = "done"
    /\ UNCHANGED <<qScore, qParts, pvars, cvars, nvars, jvars, uvars, mvars>>

QNext == QBusiness \/ QFinancial \/ QInsights \/ QReturn

\* the pipeline at rest, for the specifications of the other components
PIdle == PInit /\ parallelProcessing = FALSE /\ entry = "analyzeDocumentPipeline"

\* --------------------------------------------------------------- currencies
\* a text is the sequence of its characters; the currency glyphs are written
\* by name
MaxTextLen == 3

Texts(n) ==
    UNION {[1..k -> {"$", "H", "K", "S", "A", "R", "M", "D", "m", " "}] : k \in 0..n}

\* String.prototype.includes
Includes(text, sub) ==
    \E i \in 1..(Len(text) - Len(sub) + 1) : SubSeq(text, i, i + Len(sub) - 1) = sub

Letters ==
    << <<"A", "a">>, <<"B", "b">>, <<"C", "c">>, <<"D", "d">>, <<"E", "e">>,
       <<"G", "g">>, <<"H", "h">>, <<"I", "i">>, <<"J", "j">>, <<"K", "k">>,
       <<"L", "l">>, <<"M", "m">>, <<"N", "n">>, <<"O", "o">>, <<"P", "p">>,
       <<"R", "r">>, <<"S", "s">>,
       <<"T", "t">>, <<"U", "u">>, <<"W", "w">>, <<"Y", "y">> >>

toLowerCase(text) ==
    [i \in DOMAIN text |->
        IF \E l \in DOMAIN Letters : Letters[l][1] = text[i]
        THEN Letters[CHOOSE l \in DOMAIN Letters : Letters[l][1] = text[i]][2]
        ELSE text[i]]

toUpperCase(text) ==
    [i \in DOMAIN text |->
        IF \E l \in DOMAIN Letters : Letters[l][2] = text[i]
        THEN Letters[CHOOSE l \in DOMAIN Letters : Letters[l][2] = text[i]][1]
        ELSE text[i]]

CurrencyInfo(key, symbol, code) == [key |-> key, symbol |-> symbol, code |-> code]

\* the entries of SUPPORTED_CURRENCIES in their insertion order
SUPPORTED_CURRENCIES ==
    << CurrencyInfo(<<"S", "$">>, <<"S", "$">>, "SGD"),
       CurrencyInfo(<<"$">>, <<"$">>, "USD"),
       CurrencyInfo(<<"U", "S", "D">>, <<"$">>, "USD"),
       CurrencyInfo(<<"EURO">>, <<"EURO">>, "EUR"),
       CurrencyInfo(<<"E", "U", "R">>, <<"EURO">>, "EUR"),
       CurrencyInfo(<<"POUND">>, <<"POUND">>, "GBP"),
       CurrencyInfo(<<"G", "B", "P">>, <<"POUND">>, "GBP"),
       CurrencyInfo(<<"YEN">>, <<"YEN">>, "JPY"),
       CurrencyInfo(<<"J", "P", "Y">>, <<"YEN">>, "JPY"),
       CurrencyInfo(<<"R", "M">>, <<"R", "M">>, "MYR"),
       CurrencyInfo(<<"M", "Y", "R">>, <<"R", "M">>, "MYR"),
       CurrencyInfo(<<"RUPEE">>, <<"RUPEE">>, "INR"),
       CurrencyInfo(<<"I", "N", "R">>, <<"RUPEE">>, "INR"),
       CurrencyInfo(<<"C", "N", "Y">>, <<"YEN">>, "CNY"),
       CurrencyInfo(<<"H", "K", "$">>, <<"H", "K", "$">>, "HKD"),
       CurrencyInfo(<<"H", "K", "D">>, <<"H", "K", "$">>, "HKD"),
       CurrencyInfo(<<"BAHT">>, <<"BAHT">>, "THB"),
       CurrencyInfo(<<"T", "H", "B">>, <<"BAHT">>, "THB"),
       CurrencyInfo(<<"R", "p">>, <<"R", "p">>, "IDR"),
       CurrencyInfo(<<"I", "D", "R">>, <<"R", "p">>, "IDR"),
       CurrencyInfo(<<"PESO">>, <<"PESO">>, "PHP"),
       CurrencyInfo(<<"P", "H", "P">>, <<"PESO">>, "PHP"),
       CurrencyInfo(<<"WON">>, <<"WON">>, "KRW"),
       CurrencyInfo(<<"K", "R", "W">>, <<"WON">>, "KRW"),
       CurrencyInfo(<<"A", "$">>, <<"A", "$">>, "AUD"),
       CurrencyInfo(<<"A", "U", "D">>, <<"A", "$">>, "AUD"),
       CurrencyInfo(<<"C", "$">>, <<"C", "$">>, "CAD"),
       CurrencyInfo(<<"C", "A", "D">>, <<"C", "$">>, "CAD") >>

\* SUPPORTED_CURRENCIES[key] of a key the table does not hold
undefined == CurrencyInfo(<<>>, <<>>, "undefined")

\* SUPPORTED_CURRENCIES[key]
Lookup(key) ==
    IF \E i \in DOMAIN SUPPORTED_CURRENCIES : SUPPORTED_CURRENCIES[i].key = key
    THEN SUPPORTED_CURRENCIES[
           CHOOSE i \in DOMAIN SUPPORTED_CURRENCIES : SUPPORTED_CURRENCIES[i].key = key]
    ELSE undefined

\* the index of the first TRUE of a sequence of truth values, 0 if there is
\* none: the element at which a loop with a return or a break stops
FirstIndex(hits) ==
    IF \E i \in DOMAIN hits : hits[i]
    THEN CHOOSE i \in DOMAIN hits : hits[i] /\ \A j \in 1..(i - 1) : ~hits[j]
    ELSE 0

\* getExtractedCurrency: the symbols, most specific first, then the codes
getExtractedCurrency(allText) ==
    LET currencyPriority ==
            << <<"H", "K", "$">>, <<"A", "$">>, <<"C", "$">>, <<"S", "$">>, <<"R", "M">>,
               <<"RUPEE">>, <<"PESO">>, <<"BAHT">>, <<"R", "p">>, <<"WON">>, <<"YEN">>,
               <<"EURO">>, <<"POUND">>, <<"$">> >>
        currencyCodes ==
            << <<"I", "N", "R">>, <<"C", "N", "Y">>, <<"H", "K", "D">>, <<"T", "H", "B">>,
               <<"I", "D", "R">>, <<"P", "H", "P">>, <<"K", "R", "W">>, <<"A", "U", "D">>,
               <<"C", "A", "D">>, <<"M", "Y", "R">>, <<"S", "G", "D">>, <<"E", "U", "R">>,
               <<"G", "B", "P">>, <<"U", "S", "D">> >>
        Resolved(bySymbol, byCode) ==
            IF bySymbol # 0 THEN Lookup(currencyPriority[bySymbol])
            ELSE IF byCode # 0 THEN Lookup(currencyCodes[byCode])
            ELSE Lookup(<<"$">>)
    IN  Resolved(FirstIndex([i \in DOMAIN currencyPriority |->
                                Includes(allText, currencyPriority[i])]),
                 FirstIndex([i \in DOMAIN currencyCodes |->
                                Includes(toUpperCase(allText), currencyCodes[i])]))

\* detectCurrency: its own, shorter symbol list, then every key of the table
detectCurrency(valueStr, context) ==
    LET combinedText == toLowerCase(valueStr \o <<" ">> \o context)
        currencyPriority ==
            << <<"R", "M">>, <<"S", "$">>, <<"EURO">>, <<"POUND">>, <<"YEN">>, <<"$">> >>
        Resolved(bySymbol, byKey) ==
            IF bySymbol # 0 THEN Lookup(currencyPriority[bySymbol])
            ELSE IF byKey # 0 THEN SUPPORTED_CURRENCIES[byKey]
            ELSE Lookup(<<"$">>)
    IN  Resolved(FirstIndex([i \in DOMAIN currencyPriority |->
                    /\ Lookup(currencyPriority[i]) # undefined
                    /\ \/ Includes(valueStr, currencyPriority[i])
                       \/ Includes(combinedText, toLowerCase(currencyPriority[i]))]),
                 FirstIndex([i \in DOMAIN SUPPORTED_CURRENCIES |->
                    Includes(combinedText, toLowerCase(SUPPORTED_CURRENCIES[i].key))]))

\* ----------------------------------------------------------- selectBestMatch
MaxMatches == 3

\* a FinancialMatch by the fields the comparison reads; year is Null when
\* extractYear found none
FinancialMatch(year, confidence, contextLength) ==
    [year |-> year, confidence |-> confidence, contextLength |-> contextLength]

\* selectBestMatch of no matches
NoMatch == FinancialMatch(Null, "none", 0)

\* a comparison that stops after the years
compareYearsOnly(a, b) ==
    IF a.year # Null /\ b.year # Null /\ a.year # b.year THEN b.year - a.year
    ELSE IF a.year # Null /\ b.year = Null THEN -1
    ELSE IF a.year = Null /\ b.year # Null THEN 1
    ELSE 0

\* the comparison function handed to matches.sort
compare(a, b) ==
    IF a.year # Null /\ b.year # Null /\ a.year # b.year THEN b.year - a.year
    ELSE IF a.year # Null /\ b.year = Null THEN -1
    ELSE IF a.year = Null /\ b.year # Null THEN 1
    ELSE LET confidenceOrder == [high |-> 3, medium |-> 2, low |-> 1]
             confDiff == confidenceOrder[a.confidence] - confidenceOrder[b.confidence]
         IN  IF confDiff # 0 THEN -confDiff
             ELSE a.contextLength - b.contextLength

\* Array.prototype.sort: stable, by insertion of each element after the last
\* element that does not come after it
RECURSIVE sort(_)
sort(matches) ==
    IF matches = <<>> THEN <<>>
    ELSE LET at(keep) == IF keep = {} THEN 0 ELSE CHOOSE j \in keep : \A k \in keep : k <= j
             place(sorted, m, pos) ==
                 SubSeq(sorted, 1, pos) \o <<m>> \o SubSeq(sorted, pos + 1, Len(sorted))
             insert(sorted, m) ==
                 place(sorted, m, at({j \in DOMAIN sorted : compare(sorted[j], m) <= 0}))
         IN  insert(sort(SubSeq(matches, 1, Len(matches) - 1)), matches[Len(matches)])

selectBestMatch(matches) ==
    IF Len(matches) = 0 THEN NoMatch
    ELSE IF Len(matches) = 1 THEN matches[1]
    ELSE sort(matches)[1]

CallGetExtractedCurrency ==
    /\ cMethod = "none"
    /\ \E allText \in Texts(MaxTextLen) :
         /\ cInput' = allText
         /\ cResult' = getExtractedCurrency(allText)
    /\ cMethod' = "getExtractedCurrency"
    /\ UNCHANGED <<sMatches, sBest, kCall, fCall, pvars, qvars, nvars, jvars, uvars, mvars>>

\* the value string a financial match captures and the context that holds it:
\* context = match[0] ends with valueStr = match[3]
CallDetectCurrency ==
    /\ cMethod = "none"
    /\ \E valueStr \in Texts(1), before \in Texts(MaxTextLen - 1) :
         /\ cInput' = before \o valueStr
         /\ cResult' = detectCurrency(valueStr, before \o valueStr)
    /\ cMethod' = "detectCurrency"
    /\ UNCHANGED <<sMatches, sBest, kCall, fCall, pvars, qvars, nvars, jvars, uvars, mvars>>

\* the candidates: a year of 2023, of 2024 or none, each confidence, a
\* context of 10 or of 20 characters
CallSelectBestMatch ==
    /\ cMethod = "none"
    /\ \E n \in 0..MaxMatches :
         \E matches \in [1..n -> {FinancialMatch(y, c, l) :
                                    y \in {2023, 2024, Null},
                                    c \in {"high", "medium", "low"},
                                    l \in {10, 20}}] :
             /\ sMatches' = matches
             /\ sBest' = selectBestMatch(matches)
    /\ cMethod' = "selectBestMatch"
    /\ UNCHANGED <<cInput, cResult, kCall, fCall, pvars, qvars, nvars, jvars, uvars, mvars>>

\* ------------------------------------------------------- calculateConfidence
\* A context by what calculateConfidence reads of it: whether its lower-cased
\* text includes the keyword (the pattern that found it takes the keyword in
\* any case and with any white space between its words), and which of the
\* words current, latest, underlying and adjusted it includes. The context
\* begins with the keyword as the pattern matched it, so the words of a
\* keyword such as "underlying net profit" are words of the context.
Contexts(keyword) ==
    {c \in [exact : BOOLEAN, words : SUBSET {"current", "latest", "underlying", "adjusted"}] :
        /\ keyword = "underlying net profit" => "underlying" \in c.words
        /\ keyword = "adjusted net profit" => "adjusted" \in c.words}

\* a score that rewards the adjusted figures
confidenceScoreRewardingAdjusted(context, year) ==
    (IF year # Null /\ year >= 2023 THEN 2 ELSE 0)
    + (IF context.exact THEN 2 ELSE 0)
    + (IF context.words \cap {"current", "latest"} # {} THEN 1 ELSE 0)
    + (IF context.words \cap {"underlying", "adjusted"} # {} THEN 1 ELSE 0)

\* the score of calculateConfidence; year is Null when extractYear found none
confidenceScore(context, year) ==
    (IF year # Null /\ year >= 2023 THEN 2 ELSE 0)
    + (IF context.exact THEN 2 ELSE 0)
    + (IF context.words \cap {"current", "latest"} # {} THEN 1 ELSE 0)
    - (IF context.words \cap {"underlying", "adjusted"} # {} THEN 1 ELSE 0)

calculateConfidence(context, year) ==
    LET Tier(score) == IF score >= 3 THEN "high" ELSE IF score >= 1 THEN "medium" ELSE "low"
    IN  Tier(confidenceScore(context, year))

NoConfidence ==
    [keyword |-> "none", context |-> [exact |-> FALSE, words |-> {}], year |-> Null,
     score |-> 0, confidence |-> "low"]

\* findAllFinancialMatches rates a match; the years are those a context can
\* name, 2022 before the recent ones
CallCalculateConfidence ==
    /\ cMethod = "none"
    /\ \E keyword \in {"net profit", "underlying net profit", "adjusted net profit"} :
         \E context \in Contexts(keyword), year \in {Null, 2022, 2023, 2024} :
             kCall' = [keyword |-> keyword, context |-> context, year |-> year,
                       score |-> confidenceScore(context, year),
                       confidence |-> calculateConfidence(context, year)]
    /\ cMethod' = "calculateConfidence"
    /\ UNCHANGED <<cInput, cResult, sMatches, sBest, fCall, pvars, qvars, nvars, jvars, uvars, mvars>>

\* --------------------------------------------------- formatFinancialValue
\* A formatted value by its parts: the currency symbol, the number (in tenths
\* where toFixed(1) wrote it, whole where toLocaleString or NaN did) and the
\* suffix. The values are in units of the currency here.
Formatted(symbol, number, decimals, suffix) ==
    [symbol |-> symbol, number |-> number, decimals |-> decimals, suffix |-> suffix]

\* (value / scale).toFixed(1), in tenths: the nearest tenth, the larger one of
\* two that are as near
toFixed1(value, scale) ==
    LET tenth == scale \div 10
        Round(q, r) == IF 2 * r >= tenth THEN q + 1 ELSE q
    IN  Round(value \div tenth, value % tenth)

\* thresholds that a value has to exceed
formatFinancialValueAbove(value, type, currency) ==
    IF value = Null THEN Formatted(<<>>, Null, 0, "N/A")
    ELSE IF type = "currency"
    THEN LET currencySymbol == IF currency.symbol # <<>> THEN currency.symbol ELSE <<"$">>
         IN  IF value > 1000000000
             THEN Formatted(currencySymbol, toFixed1(value, 1000000000), 1, "B")
             ELSE IF value > 1000000
             THEN Formatted(currencySymbol, toFixed1(value, 1000000), 1, "M")
             ELSE IF value > 1000
             THEN Formatted(currencySymbol, toFixed1(value, 1000), 1, "K")
             ELSE Formatted(currencySymbol, value, 0, "")
    ELSE IF type = "number" THEN Formatted(<<>>, value, 0, "")
    ELSE Formatted(<<>>, 10 * value, 1, "%")

\* currency?.symbol || '$': the symbol of no currency and the empty symbol
\* give "$". A comparison with NaN is false, so NaN is written unscaled.
formatFinancialValue(value, type, currency) ==
    IF value = Null THEN Formatted(<<>>, Null, 0, "N/A")
    ELSE IF type = "currency"
    THEN LET currencySymbol == IF currency.symbol # <<>> THEN currency.symbol ELSE <<"$">>
         IN  IF AtLeast(value, 1000000000)
             THEN Formatted(currencySymbol, toFixed1(value, 1000000000), 1, "B")
             ELSE IF AtLeast(value, 1000000)
             THEN Formatted(currencySymbol, toFixed1(value, 1000000), 1, "M")
             ELSE IF AtLeast(value, 1000)
             THEN Formatted(currencySymbol, toFixed1(value, 1000), 1, "K")
             ELSE Formatted(currencySymbol, value, 0, "")
    ELSE IF type = "number" THEN Formatted(<<>>, value, 0, "")
    ELSE IF value = NaN THEN Formatted(<<>>, NaN, 0, "%")
    ELSE Formatted(<<>>, 10 * value, 1, "%")

NoFormat ==
    [value |-> Null, type |-> "currency", currency |-> undefined,
     text |-> Formatted(<<>>, Null, 0, "N/A")]

\* generateAdvancedCharts formats a metric; the values lie at and next to the
\* thresholds
CallFormatFinancialValue ==
    /\ cMethod = "none"
    /\ \E value \in {Null, NaN, 0, 999, 1000, 1049, 1050, 999999, 1000000, 1500000,
                     999949999, 999999999, 1000000000, 2000000000},
          type \in {"currency", "number", "percentage"},
          currency \in {undefined, Lookup(<<"R", "M">>), Lookup(<<"S", "$">>)} :
         \* a percentage is a margin, far below the amounts of money
         /\ type = "percentage" => value <= 1050
         /\ fCall' = [value |-> value, type |-> type, currency |-> currency,
                      text |-> formatFinancialValue(value, type, currency)]
    /\ cMethod' = "formatFinancialValue"
    /\ UNCHANGED <<cInput, cResult, sMatches, sBest, kCall, pvars, qvars, nvars, jvars, uvars, mvars>>

\* the static method returns; nothing of the call is kept
CReturn ==
    /\ cMethod # "none"
    /\ cMethod' = "none"
    /\ cInput' = <<>>
    /\ cResult' = undefined
    /\ sMatches' = <<>>
    /\ sBest' = NoMatch
    /\ kCall' = NoConfidence
    /\ fCall' = NoFormat
    /\ UNCHANGED <<pvars, qvars, nvars, jvars, uvars, mvars>>

CNext ==
    \/ CallGetExtractedCurrency
    \/ CallDetectCurrency
    \/ CallSelectBestMatch
    \/ CallCalculateConfidence
    \/ CallFormatFinancialValue
    \/ CReturn

\* ------------------------------------------------- FinancialDataExtractor
\* Money is counted in thousands, so that the range of validateRevenueRange
\* (1,000,000 to 1,000,000,000,000) fits 32-bit integers.
MinRevenue == 1000

MaxRevenue == 1000000000

thousandScale == 1

millionScale == 1000

billionScale == 1000000

\* the scale words the parsers look for
scaleWord ==
    [million |-> <<"m", "i", "l", "l", "i", "o", "n">>,
     billion |-> <<"b", "i", "l", "l", "i", "o", "n">>,
     thousand |-> <<"t", "h", "o", "u", "s", "a", "n", "d">>]

\* a value as a text holds it: the characters before the digits, the number
\* the digits and commas spell (NaN when they are commas only), the scale
\* word after them (empty when there is none), and whether the digits and
\* commas are seven or more
Value(prefix, number, unit, long) ==
    [prefix |-> prefix, number |-> number, unit |-> unit, long |-> long]

\* parseFinancialValueEnhanced(`${valueMatch[1]} ${valueMatch[2]}`);
\* replace(/[S$...RM,\s]/g, '') leaves the text without these characters
parseFinancialValueEnhanced(v) ==
    LET stripped(c) == c \notin {"S", "$", "EURO", "POUND", "YEN", "R", "M", ",", " "}
        cleanValue == toLowerCase(SelectSeq(v.unit, stripped))
        numberPart == v.number
    IN  IF numberPart = NaN THEN Null
        ELSE IF Includes(cleanValue, scaleWord.billion) \/ Includes(cleanValue, <<"b">>)
             THEN numberPart * billionScale
        ELSE IF Includes(cleanValue, scaleWord.million) \/ Includes(cleanValue, <<"m">>)
             THEN numberPart * millionScale
        ELSE IF Includes(cleanValue, scaleWord.thousand) \/ Includes(cleanValue, <<"k">>)
             THEN numberPart * thousandScale
        ELSE numberPart * millionScale

\* parseFinancialValue(text) of the text prefix, digits, scale word; every
\* pattern that calls it demands a scale word; NaN times a scale is NaN
parseFinancialValue(prefix, v) ==
    LET stripped(c) == c \notin {"$", ",", " "}
        cleanValue == toLowerCase(SelectSeq(prefix \o v.unit, stripped))
        numberPart == v.number
        scale ==
            IF Includes(cleanValue, scaleWord.billion) \/ Includes(cleanValue, <<"b">>)
            THEN billionScale
            ELSE IF Includes(cleanValue, scaleWord.million) \/ Includes(cleanValue, <<"m">>)
            THEN millionScale
            ELSE IF Includes(cleanValue, scaleWord.thousand) \/ Includes(cleanValue, <<"k">>)
            THEN thousandScale
            ELSE 1
    IN  IF numberPart = NaN THEN NaN ELSE numberPart * scale

\* JavaScript truthiness of a number | null that may be NaN
TruthyNumber(n) == n # Null /\ n # NaN /\ n # 0

\* A text is a sequence of sentences; a sentence names a subject (keyword)
\* and then gives one value. Sentences are taken to be longer than the
\* context windows of findFinancialValue and extractEmployees, so a window
\* holds the sentence of its keyword only.
MaxSentences == 2

\* a result of a function that may throw
Returned(value) == [thrown |-> FALSE, value |-> value]

Thrown == [thrown |-> TRUE, value |-> Null]

\* new RegExp(`...${currency.symbol}?...`) throws a TypeError when the
\* currency is undefined and a SyntaxError (nothing to repeat) when the
\* symbol ends with the assertion $. The currency is resolved from
\* getAllAnalysisText, of which the resolution reads the characters before
\* the digits of every value.
patternThrows(doc) ==
    LET F[i \in 0..Len(doc)] ==
            IF i = 0 THEN <<>>
            ELSE IF i = 1 THEN doc[1].value.prefix
            ELSE F[i - 1] \o <<" ">> \o doc[i].value.prefix
        Throws(currency) ==
            \/ currency = undefined
            \/ currency.symbol[Len(currency.symbol)] = "$"
    IN  Throws(getExtractedCurrency(F[Len(doc)]))

\* `${currency.symbol}?` in front of [\d,]+ : the quantifier binds the last
\* character of the symbol only, so the characters before it have to stand
\* directly before the digits (RM? needs R or RM). Read where the pattern
\* does not throw.
symbolPrecedes(doc, value) ==
    LET F[i \in 0..Len(doc)] ==
            IF i = 0 THEN <<>>
            ELSE IF i = 1 THEN doc[1].value.prefix
            ELSE F[i - 1] \o <<" ">> \o doc[i].value.prefix
        EndsWith(text, end) ==
            /\ Len(text) >= Len(end)
            /\ SubSeq(text, Len(text) - Len(end) + 1, Len(text)) = end
        Precedes(symbol) ==
            \/ EndsWith(value.prefix, symbol)
            \/ EndsWith(value.prefix, SubSeq(symbol, 1, Len(symbol) - 1))
    IN  Precedes(getExtractedCurrency(F[Len(doc)]).symbol)

\* the sentence holds one of the words: the keywords and pattern words of
\* the extractor that its subject holds
hasWord(s, words) ==
    LET held ==
        CASE s.keyword = "revenue" -> {"revenue"}
          [] s.keyword = "total revenue" -> {"total revenue", "revenue"}
          [] s.keyword = "fiscal 2024 revenue" -> {"fiscal 2024 revenue", "revenue"}
          [] s.keyword = "net sales" -> {"net sales", "sales"}
          [] s.keyword = "profit" -> {"profit"}
          [] s.keyword = "net profit" -> {"net profit", "profit"}
          [] s.keyword = "net income" -> {"net income", "income"}
          [] s.keyword = "net profit on sales" -> {"net profit", "profit", "sales"}
          [] s.keyword = "underlying net profit" -> {"net profit", "profit", "underlying"}
          [] s.keyword = "total employees" -> {"total employees", "employee", "employ"}
          [] s.keyword = "staff" -> {"staff"}
          [] s.keyword = "employees not disclosed" -> {"employee", "employ", "not disclosed"}
          [] s.keyword = "revenue not disclosed" -> {"revenue", "not disclosed"}
    IN  held \cap words # {}

extractRevenueScaled(doc) ==
    IF patternThrows(doc) THEN Thrown
    ELSE LET Hit(s) == /\ hasWord(s, {"revenue"})
                           /\ s.value.unit # <<>>
                           /\ symbolPrecedes(doc, s.value)
             matches == SelectSeq(doc, Hit)
         IN  IF matches # <<>>
             THEN Returned(parseFinancialValueEnhanced(matches[1].value))
             ELSE Returned(Null)

\* the loop that extractRevenueFull, extractRevenueFiscal and
\* extractRevenueContext run over their matches for the full-digit format.
\* match.match(/([\\d,]{7,})/): the class of this literal holds the
\* backslash, the letter d and the comma, so it matches a run of commas and
\* no digit, and parseInt of what it matched is NaN
firstFullValue(matches) ==
    LET literalMatches(v) == v.long /\ v.number = NaN
        parseInt(v) == NaN
        Hit(s) == literalMatches(s.value) /\ AtLeast(parseInt(s.value), MinRevenue)
        good == SelectSeq(matches, Hit)
    IN  IF good # <<>> THEN parseInt(good[1].value) ELSE Null

extractRevenueFull(doc) ==
    IF patternThrows(doc) THEN Thrown
    ELSE LET Hit(s) == /\ hasWord(s, {"revenue"})
                           /\ s.value.long
                           /\ symbolPrecedes(doc, s.value)
         IN  Returned(firstFullValue(SelectSeq(doc, Hit)))

extractRevenueFiscal(doc) ==
    IF patternThrows(doc) THEN Thrown
    ELSE LET Hit(s) == /\ hasWord(s, {"fiscal 2024 revenue"})
                           /\ symbolPrecedes(doc, s.value)
             matches == SelectSeq(doc, Hit)
             Scaled(s) == s.value.unit # <<>>
             \* the first match that returns: a scaled one returns whatever
             \* it parses to, a full-digit one only a value of a million
             Returns(s) == Scaled(s) \/ firstFullValue(<<s>>) # Null
             returning == SelectSeq(matches, Returns)
         IN  IF returning = <<>> THEN Returned(Null)
             ELSE IF Scaled(returning[1])
                  THEN Returned(parseFinancialValueEnhanced(returning[1].value))
             ELSE Returned(firstFullValue(<<returning[1]>>))

extractRevenueContext(doc) ==
    IF patternThrows(doc) THEN Thrown
    ELSE LET Hit(s) == /\ hasWord(s, {"revenue"})
                           /\ s.value.long
                           /\ symbolPrecedes(doc, s.value)
         IN  Returned(firstFullValue(SelectSeq(doc, Hit)))

\* a validation without the upper limit
validateRevenueMinimum(value) == AtLeast(value, MinRevenue)

validateRevenueRange(value) == AtLeast(value, MinRevenue) /\ value <= MaxRevenue

\* the strategies in their order; the first whose result is truthy and
\* within the range gives the value
extractRevenueMultiStrategy(doc) ==
    LET Accepted(o) == ~o.thrown /\ TruthyNumber(o.value) /\ validateRevenueRange(o.value)
        Taken(strategies, i) ==
            IF i = 0 THEN Returned(Null) ELSE Returned(strategies[i].value)
        First(strategies) ==
            Taken(strategies, FirstIndex([k \in 1..4 |-> Accepted(strategies[k])]))
    IN  First(<< extractRevenueScaled(doc), extractRevenueFull(doc),
                 extractRevenueFiscal(doc), extractRevenueContext(doc) >>)

financialKeywords ==
    [revenue |-> <<"total revenue", "net sales", "operating revenue", "turnover", "total income">>,
     profit |-> <<"net profit", "net income", "profit after tax", "net earnings">>,
     employees |-> <<"total employees", "workforce", "headcount", "number of employees", "staff count">>]

\* findFinancialValue(text, keyword) on the lower-cased text: the value in
\* the window of the first occurrence of the keyword; the pattern takes a
\* "$" in front of the digits with it
findFinancialValue(doc, keyword) ==
    LET Hit(s) == hasWord(s, {keyword})
        found == SelectSeq(doc, Hit)
    IN  IF found = <<>> THEN Null
        ELSE IF found[1].value.unit = <<>> THEN Null
        ELSE LET v == found[1].value
                 dollar == IF v.prefix # <<>> /\ v.prefix[Len(v.prefix)] = "$"
                           THEN <<"$">> ELSE <<>>
             IN  parseFinancialValue(dollar, [v EXCEPT !.unit = toLowerCase(v.unit)])

\* the loop `if (match) return match` over the keywords of one metric
firstKeywordValue(doc, keywords) ==
    LET i == FirstIndex([k \in DOMAIN keywords |->
                            TruthyNumber(findFinancialValue(doc, keywords[k]))])
    IN  IF i = 0 THEN Null ELSE findFinancialValue(doc, keywords[i])

\* the flags of a sticky pattern
stickyPatternFlags == {"i", "y"}

\* the flags of the module-level fallbackPatterns.revenue
revenuePatternFlags == {"i"}

\* RegExpBuiltinExec of fallbackPatterns.revenue: sentence i lies between the
\* positions i - 1 and i. The match starts at the first word revenue, sales
\* or income at or after the start position (exactly at it when sticky) that
\* an r-prefixed scaled value follows, and ends with the first such value.
\* [S$...]?RM? in front of the digits, on lower-cased text: an r, then an
\* optional m, must stand directly before them.
\* Only a global or sticky pattern reads and writes lastIndex.
regExpBuiltinExec(flags, index, doc) ==
    LET usesIndex == "g" \in flags \/ "y" \in flags
        start == IF usesIndex THEN index ELSE 0
        rPrefixed(v) ==
            LET prefix == toLowerCase(v.prefix)
            IN  /\ prefix # <<>>
                /\ \/ prefix[Len(prefix)] = "r"
                   \/ /\ Len(prefix) >= 2
                      /\ SubSeq(prefix, Len(prefix) - 1, Len(prefix)) = <<"r", "m">>
        Ends(j) == rPrefixed(doc[j].value) /\ doc[j].value.unit # <<>>
        Starts(i) ==
            /\ hasWord(doc[i], {"revenue", "sales", "income"})
            /\ IF "y" \in flags THEN i - 1 = start ELSE i - 1 >= start
            /\ \E j \in i..Len(doc) : Ends(j)
        from == {i \in DOMAIN doc : Starts(i)}
        first == CHOOSE i \in from : \A k \in from : i <= k
        last == CHOOSE j \in first..Len(doc) : Ends(j) /\ \A k \in first..(j - 1) : ~Ends(k)
    IN  IF from = {} THEN [match |-> 0, lastIndex |-> IF usesIndex THEN 0 ELSE index]
        ELSE [match |-> last, lastIndex |-> IF usesIndex THEN last ELSE index]

\* extractRevenueFallback: the result and the lastIndex it leaves
extractRevenueFallback(doc, index) ==
    LET Parsed(v) ==
            parseFinancialValue(toLowerCase(v.prefix), [v EXCEPT !.unit = toLowerCase(v.unit)])
        Fallback(match, patternMatch) ==
            IF match # Null THEN [value |-> match, lastIndex |-> index]
            ELSE IF patternMatch.match # 0
            THEN [value |-> Parsed(doc[patternMatch.match].value),
                  lastIndex |-> patternMatch.lastIndex]
            ELSE [value |-> Null, lastIndex |-> patternMatch.lastIndex]
    IN  Fallback(firstKeywordValue(doc, financialKeywords.revenue),
                 regExpBuiltinExec(revenuePatternFlags, index, doc))

extractRevenue(doc, index) ==
    LET Try(enhanced) ==
            IF ~enhanced.thrown /\ TruthyNumber(enhanced.value)
            THEN [thrown |-> FALSE, value |-> enhanced.value, lastIndex |-> index]
            ELSE [thrown |-> FALSE] @@ extractRevenueFallback(doc, index)
    IN  Try(extractRevenueMultiStrategy(doc))

extractProfitIsolated(doc) ==
    IF patternThrows(doc) THEN Thrown
    ELSE LET profitKeywords == financialKeywords.profit
             \* the matches of one keyword that are not in a revenue context
             Usable(keyword) ==
                 LET Hit(s) == /\ hasWord(s, {keyword})
                               /\ s.value.unit # <<>>
                               /\ symbolPrecedes(doc, s.value)
                               /\ ~hasWord(s, {"revenue", "sales"})
                               /\ TruthyNumber(parseFinancialValueEnhanced(s.value))
                 IN  SelectSeq(doc, Hit)
             i == FirstIndex([k \in DOMAIN profitKeywords |->
                                 Usable(profitKeywords[k]) # <<>>])
         IN  IF i = 0 THEN Returned(Null)
             ELSE Returned(parseFinancialValueEnhanced(Usable(profitKeywords[i])[1].value))

\* the local profitPattern of extractProfitFallback: the first scaled value
\* after the first word profit, income or earnings, with one currency
\* character in front of the digits
extractProfitFallback(doc) ==
    LET match == firstKeywordValue(doc, financialKeywords.profit)
        Starts(i) == /\ hasWord(doc[i], {"profit", "income", "earnings"})
                     /\ \E j \in i..Len(doc) : doc[j].value.unit # <<>>
        from == {i \in DOMAIN doc : Starts(i)}
        first == CHOOSE i \in from : \A k \in from : i <= k
        last == CHOOSE j \in first..Len(doc) :
                    doc[j].value.unit # <<>> /\ \A k \in first..(j - 1) : doc[k].value.unit = <<>>
        v == doc[last].value
        prefix == toLowerCase(v.prefix)
        character == IF prefix # <<>> /\ prefix[Len(prefix)] \in {"s", "$", "EURO", "POUND", "YEN"}
                     THEN <<prefix[Len(prefix)]>> ELSE <<>>
    IN  IF match # Null THEN match
        ELSE IF from # {}
        THEN parseFinancialValue(character, [v EXCEPT !.unit = toLowerCase(v.unit)])
        ELSE Null

\* extractProfit without its try and catch
extractProfitUncaught(doc) ==
    LET Try(enhanced) ==
            IF enhanced.thrown THEN Thrown
            ELSE IF TruthyNumber(enhanced.value) THEN Returned(enhanced.value)
            ELSE Returned(extractProfitFallback(doc))
    IN  Try(extractProfitIsolated(doc))

extractProfit(doc) ==
    LET Try(enhanced) ==
            IF ~enhanced.thrown /\ TruthyNumber(enhanced.value) THEN Returned(enhanced.value)
            ELSE Returned(extractProfitFallback(doc))
    IN  Try(extractProfitIsolated(doc))

\* the plausible head count of a large corporation
MinEmployees == 500

MaxEmployees == 500000

\* the matches of the enhanced fallback pattern of extractEmployees: from
\* each word employ, workforce, headcount or staff after the previous match
\* to the first number that follows it. The value of a sentence of an
\* employee text is the numbers it gives, in their order, each with its
\* digits and its suffix.
RECURSIVE fallbackMatches(_, _)
fallbackMatches(doc, from) ==
    LET Starts(i) == /\ i >= from
                     /\ hasWord(doc[i], {"employ", "workforce", "headcount", "staff"})
                     /\ \E j \in i..Len(doc) : doc[j].value.numbers # <<>>
        starts == {i \in DOMAIN doc : Starts(i)}
        first == CHOOSE i \in starts : \A k \in starts : i <= k
        last == CHOOSE j \in first..Len(doc) :
                    /\ doc[j].value.numbers # <<>>
                    /\ \A k \in first..(j - 1) : doc[k].value.numbers = <<>>
    IN  IF starts = {} THEN <<>>
        ELSE <<doc[last].value.numbers[1]>> \o fallbackMatches(doc, last + 1)

extractEmployees(doc) ==
    LET NotAvailable(s) == hasWord(s, {"not disclosed"})
        Context(s) == hasWord(s, {"employee", "workforce", "headcount"})
        hasEmployeeContext == \E i \in DOMAIN doc : Context(doc[i])
        \* parseInt(match.replace(/[,+k]/g, '')), times 1000 for a k or thousand
        value(n) ==
            IF \/ Includes(toLowerCase(n.suffix), <<"k">>)
               \/ Includes(toLowerCase(n.suffix), scaleWord.thousand)
            THEN n.digits * 1000
            ELSE n.digits
        InRange(n) == value(n) >= MinEmployees /\ value(n) <= MaxEmployees
        \* the numbers in the window of the first occurrence of a keyword
        Window(keyword) ==
            LET Hit(s) == hasWord(s, {keyword})
                found == SelectSeq(doc, Hit)
            IN  IF found = <<>> THEN <<>> ELSE found[1].value.numbers
        keywords == financialKeywords.employees
        byKeyword == FirstIndex([k \in DOMAIN keywords |->
                         \E i \in DOMAIN Window(keywords[k]) : InRange(Window(keywords[k])[i])])
        window == Window(keywords[byKeyword])
        fallback == fallbackMatches(doc, 1)
        byFallback == FirstIndex([k \in DOMAIN fallback |-> InRange(fallback[k])])
    IN  IF hasEmployeeContext /\ \E i \in DOMAIN doc : NotAvailable(doc[i]) THEN Null
        ELSE IF byKeyword # 0
             THEN value(window[FirstIndex([k \in DOMAIN window |-> InRange(window[k])])])
        ELSE IF byFallback # 0 THEN value(fallback[byFallback])
        ELSE Null

\* the sentences of the revenue texts
RevenueSentences ==
    {[keyword |-> k, value |-> v] :
        k \in {"revenue", "total revenue", "fiscal 2024 revenue", "net sales"},
        v \in { Value(<<"R", "M">>, 5, scaleWord.thousand, FALSE),
                Value(<<"R", "M">>, 5, scaleWord.million, FALSE),
                Value(<<"$">>, 5, scaleWord.billion, FALSE),
                Value(<<"R", "M">>, 2000, scaleWord.billion, FALSE),
                Value(<<"R", "M">>, NaN, scaleWord.million, FALSE),
                Value(<<>>, NaN, <<>>, TRUE),
                Value(<<"R", "M">>, NaN, <<>>, TRUE) }}

\* the sentences of the profit texts
ProfitSentences ==
    {[keyword |-> k, value |-> v] :
        k \in {"profit", "net profit", "net income", "net profit on sales"},
        v \in { Value(<<"R", "M">>, 5, scaleWord.million, FALSE),
                Value(<<"S", "G", "D">>, 5, toUpperCase(scaleWord.thousand), FALSE),
                Value(<<>>, NaN, scaleWord.million, FALSE) }}
    \cup {[keyword |-> "underlying net profit", value |-> v] :
             v \in { Value(<<"R", "M">>, 7, scaleWord.million, FALSE),
                     Value(<<"$">>, 7, scaleWord.million, FALSE) }}

\* the sentences of the employee texts
EmployeeSentences ==
    {[keyword |-> k, value |-> [numbers |-> v]] :
        k \in {"total employees", "staff", "employees not disclosed", "revenue not disclosed"},
        v \in { << [digits |-> 499, suffix |-> <<>>], [digits |-> 500, suffix |-> <<"k">>] >>,
                << [digits |-> 500001, suffix |-> <<>>] >>,
                << [digits |-> 500, suffix |-> <<"+">>] >>,
                << [digits |-> 5, suffix |-> scaleWord.thousand] >> }}

Docs(sentences) == UNION {[1..n -> sentences] : n \in 0..MaxSentences}

NoCall == [method |-> "none", doc |-> <<>>, result |-> Returned(Null)]

NoOutcomes ==
    [scaled |-> Returned(Null), full |-> Returned(Null), fiscal |-> Returned(Null),
     context |-> Returned(Null), enhanced |-> Returned(Null)]

CallExtractRevenue ==
    /\ nMethod = "none"
    /\ \E doc \in Docs(RevenueSentences) :
         LET Ends(r) == /\ nResult' = [thrown |-> r.thrown, value |-> r.value]
                        /\ lastIndex' = r.lastIndex
         IN  /\ nDoc' = doc
             /\ Ends(extractRevenue(doc, lastIndex))
             /\ nOutcomes' = [scaled |-> extractRevenueScaled(doc),
                              full |-> extractRevenueFull(doc),
                              fiscal |-> extractRevenueFiscal(doc),
                              context |-> extractRevenueContext(doc),
                              enhanced |-> extractRevenueMultiStrategy(doc)]
    /\ nMethod' = "extractRevenue"
    /\ UNCHANGED <<nSeen, pvars, qvars, cvars, jvars, uvars, mvars>>

CallExtractProfit ==
    /\ nMethod = "none"
    /\ \E doc \in Docs(ProfitSentences) :
         /\ nDoc' = doc
         /\ nResult' = extractProfit(doc)
         /\ nOutcomes' = [NoOutcomes EXCEPT !.enhanced = extractProfitIsolated(doc)]
    /\ nMethod' = "extractProfit"
    /\ UNCHANGED <<lastIndex, nSeen, pvars, qvars, cvars, jvars, uvars, mvars>>

CallExtractEmployees ==
    /\ nMethod = "none"
    /\ \E doc \in Docs(EmployeeSentences) :
         /\ nDoc' = doc
         /\ nResult' = Returned(extractEmployees(doc))
    /\ nMethod' = "extractEmployees"
    /\ nOutcomes' = NoOutcomes
    /\ UNCHANGED <<lastIndex, nSeen, pvars, qvars, cvars, jvars, uvars, mvars>>

\* the call returns; only the lastIndex of the module-level pattern stays.
\* The first call on one of two texts is kept for comparison with a later
\* call of the same method on the same text.
NReturn ==
    /\ nMethod # "none"
    /\ nMethod' = "none"
    /\ nDoc' = <<>>
    /\ nResult' = Returned(Null)
    /\ nOutcomes' = NoOutcomes
    /\ \/ nSeen' = nSeen
       \/ /\ nSeen = NoCall
          /\ nDoc \in { << [keyword |-> "revenue",
                            value |-> Value(<<"R", "M">>, 5, scaleWord.thousand, FALSE)] >>,
                        << [keyword |-> "staff",
                            value |-> [numbers |-> << [digits |-> 500, suffix |-> <<"+">>] >>]] >> }
          /\ nSeen' = [method |-> nMethod, doc |-> nDoc, result |-> nResult]
    /\ UNCHANGED <<lastIndex, pvars, qvars, cvars, jvars, uvars, mvars>>

NNext ==
    \/ CallExtractRevenue
    \/ CallExtractProfit
    \/ CallExtractEmployees
    \/ NReturn

\* ------------------------------------------------------- JSON in a response
\* A response text by what each way of locating a JSON object finds in it:
\* the content of a ```json block, the first balanced pair of braces, the
\* span from the first { to the last } and the longest span from a { to the
\* next }. A candidate is "none" (not there), "valid" (JSON.parse accepts
\* it) or "invalid"; the greedy span is also "repairable" (invalid, valid
\* after sanitizeJSON) or "breakable" (valid, invalid after sanitizeJSON,
\* which also removes a // or a word and colon inside a string value).
\* The greedy and the lazy pattern match the same texts, and balanced braces
\* are braces.
ResponseTexts ==
    {t \in [codeBlock : {"none", "valid", "invalid"},
            balanced : {"none", "valid", "invalid"},
            greedy : {"none", "valid", "repairable", "breakable", "invalid"},
            lazy : {"none", "valid", "invalid"}] :
        /\ t.greedy = "none" <=> t.lazy = "none"
        /\ t.greedy = "none" => t.balanced = "none"}

\* whether JSON.parse accepts the candidate of each strategy of
\* extractJSONRobust, in the order of its array; the third candidate is
\* sanitizeJSON(match[0])
candidatesParse(text) ==
    << text.codeBlock = "valid", text.balanced = "valid",
       text.greedy \in {"valid", "repairable"}, text.lazy = "valid" >>

\* the failure to locate a JSON object; a success names the strategy whose
\* candidate was taken
NotLocated == [failed |-> TRUE, strategy |-> 0]

extractJSONRobust(text) ==
    LET i == FirstIndex(candidatesParse(text))
    IN  IF i = 0 THEN NotLocated ELSE [failed |-> FALSE, strategy |-> i]

\* text.match(/\{[\s\S]*\}/) and JSON.parse(jsonMatch[0]) of
\* generateHRInsights, extractBusinessOverview and parseFinancialResponse:
\* the greedy span as it is; both a missing and an unparsable span fail the
\* stage
greedyParse(text) ==
    IF text.greedy = "none" THEN NotLocated
    ELSE IF text.greedy \in {"valid", "breakable"} THEN [failed |-> FALSE, strategy |-> 3]
    ELSE NotLocated

\* the single-call analysis of gemini.ts
CallExtractJSONRobust ==
    /\ jMethod = "none"
    /\ \E text \in ResponseTexts :
         /\ jText' = text
         /\ jResult' = extractJSONRobust(text)
    /\ jMethod' = "analyzeDocument"
    /\ UNCHANGED <<bCall, pvars, qvars, cvars, nvars, uvars, mvars>>

\* a stage of the pipeline reads the response of its request
CallStageParse ==
    /\ jMethod = "none"
    /\ \E text \in ResponseTexts :
         /\ jText' = text
         /\ jResult' = greedyParse(text)
    /\ \E stage \in {"extractBusinessOverview", "parseFinancialResponse", "generateHRInsights"} :
         jMethod' = stage
    /\ UNCHANGED <<bCall, pvars, qvars, cvars, nvars, uvars, mvars>>

\* ----------------------------------------------------- findBalancedJSON
\* the longest text of braces and other characters
MaxBraces == 4

\* what findBalancedJSON returned: null, or text.substring(start, i + 1)
Substring(null, text) == [null |-> null, text |-> text]

\* the loop of findBalancedJSON over the characters text[1..Len(text)]:
\* start is 0 for -1 and end is the index of the brace the loop returned at,
\* 0 while it runs on
findBalancedJSON(text) ==
    LET Step(p, i) ==
            IF p.end # 0 THEN p
            ELSE IF text[i] = "{"
            THEN [braceCount |-> p.braceCount + 1,
                  start |-> IF p.start = 0 THEN i ELSE p.start,
                  end |-> 0]
            ELSE IF text[i] = "}"
            THEN [braceCount |-> p.braceCount - 1,
                  start |-> p.start,
                  end |-> IF p.braceCount - 1 = 0 /\ p.start # 0 THEN i ELSE 0]
            ELSE p
        F[i \in 0..Len(text)] ==
            IF i = 0 THEN [braceCount |-> 0, start |-> 0, end |-> 0]
            ELSE Step(F[i - 1], i)
        Result(p) ==
            IF p.end = 0 THEN Substring(TRUE, <<>>)
            ELSE Substring(FALSE, SubSeq(text, p.start, p.end))
    IN  Result(F[Len(text)])

NoBalanced == [text |-> <<>>, result |-> Substring(TRUE, <<>>)]

\* the second strategy of extractJSONRobust on a response text
CallFindBalancedJSON ==
    /\ jMethod = "none"
    /\ \E text \in UNION {[1..n -> {"{", "}", "a"}] : n \in 0..MaxBraces} :
         bCall' = [text |-> text, result |-> findBalancedJSON(text)]
    /\ jMethod' = "findBalancedJSON"
    /\ UNCHANGED <<jText, jResult, pvars, qvars, cvars, nvars, uvars, mvars>>

JReturn ==
    /\ jMethod # "none"
    /\ jMethod' = "none"
    /\ jText' = [codeBlock |-> "none", balanced |-> "none", greedy |-> "none", lazy |-> "none"]
    /\ jResult' = NotLocated
    /\ bCall' = NoBalanced
    /\ UNCHANGED <<pvars, qvars, cvars, nvars, uvars, mvars>>

JNext == CallExtractJSONRobust \/ CallStageParse \/ CallFindBalancedJSON \/ JReturn

\* ------------------------------------------------------------------ uploads
MaxRuns == 2

\* attempts of defaultJobOptions
attempts == 3

\* the uploads of one run of the server
MaxUploads == 2

\* a background analysis of the upload with the id uploadId: started by the
\* timer of routes.ts ("timer") or as a job of the analysis queue ("job")
Run(uploadId, kind, at, outcome, attempt) ==
    [uploadId |-> uploadId, kind |-> kind, at |-> at, outcome |-> outcome,
     attempt |-> attempt]

NoRun == Run(0, "none", "idle", "none", 0)

\* an update that leaves the record as it is
updateUploadStatusIgnored(id, status, analysisData) == UNCHANGED <<uStatus, uData>>

\* MemStorage.updateUploadStatus(id, status, analysisData); a record that is
\* not in the map stays away, and the analysis data is written only when it
\* is given
updateUploadStatus(id, status, analysisData) ==
    IF uStatus \in {"none", "deleted"} \/ id # uId THEN UNCHANGED <<uStatus, uData>>
    ELSE /\ uStatus' = status
         /\ uData' = IF analysisData # "" THEN analysisData ELSE uData

\* an id taken from the size of the map
createUploadBySize(status) ==
    /\ uId' = 1
    /\ currentUploadId' = currentUploadId + 1
    /\ uStatus' = status
    /\ uData' = "null"

\* MemStorage.createUpload: the id is this.currentUploadId++
createUpload(status) ==
    /\ uId' = currentUploadId
    /\ currentUploadId' = currentUploadId + 1
    /\ uStatus' = status
    /\ uData' = "null"

\* POST /api/uploads: the record is created as processing and the analysis
\* is scheduled. The runs are numbered in the order of their requests. The
\* model keeps one record, so an upload follows the deletion of the one
\* before it.
PostUpload(kind, r) ==
    /\ uStatus \in {"none", "deleted"}
    /\ currentUploadId <= MaxUploads
    /\ uRuns[r] = NoRun
    /\ \A k \in 1..(r - 1) : uRuns[k] # NoRun
    /\ createUpload("processing")
    /\ uRuns' = [uRuns EXCEPT ![r] = Run(currentUploadId, kind, "scheduled", "none", 1)]
    /\ UNCHANGED <<pvars, qvars, cvars, nvars, jvars, mvars>>

\* POST /api/uploads/:id/reanalyze
Reanalyze(kind, r) ==
    /\ uStatus \notin {"none", "deleted"}
    /\ uRuns[r] = NoRun
    /\ \A k \in 1..(r - 1) : uRuns[k] # NoRun
    /\ updateUploadStatus(uId, "processing", "")
    /\ uRuns' = [uRuns EXCEPT ![r] = Run(uId, kind, "scheduled", "none", 1)]
    /\ UNCHANGED <<uId, currentUploadId, pvars, qvars, cvars, nvars, jvars, mvars>>

\* DELETE /api/uploads/:id
DeleteUpload ==
    /\ uStatus \notin {"none", "deleted"}
    /\ uStatus' = "deleted"
    /\ uData' = "null"
    /\ UNCHANGED <<uRuns, uId, currentUploadId, pvars, qvars, cvars, nvars, jvars, mvars>>

\* the timer of the route fires and the callback calls the pipeline
TimerFires(r) ==
    /\ uRuns[r].kind = "timer"
    /\ uRuns[r].at = "scheduled"
    /\ uRuns' = [uRuns EXCEPT ![r].at = "analysing"]
    /\ UNCHANGED <<uStatus, uData, uId, currentUploadId,
                   pvars, qvars, cvars, nvars, jvars, mvars>>

\* processAnalysisJob starts: a missing upload throws, a record that is not
\* processing is set to processing
JobStarts(r) ==
    /\ uRuns[r].kind = "job"
    /\ uRuns[r].at = "scheduled"
    /\ IF uStatus \in {"none", "deleted"} \/ uRuns[r].uploadId # uId
       THEN /\ uRuns' = [uRuns EXCEPT ![r].at = "settled", ![r].outcome = "raised"]
            /\ UNCHANGED <<uStatus, uData>>
       ELSE /\ uRuns' = [uRuns EXCEPT ![r].at = "analysing"]
            /\ IF uStatus # "processing"
               THEN updateUploadStatus(uRuns[r].uploadId, "processing", "")
               ELSE UNCHANGED <<uStatus, uData>>
    /\ UNCHANGED <<uId, currentUploadId, pvars, qvars, cvars, nvars, jvars, mvars>>

\* the awaited analysis returns a result or raises
AnalysisSettles(r) ==
    /\ uRuns[r].at = "analysing"
    /\ \E outcome \in {"returned", "raised"} :
         uRuns' = [uRuns EXCEPT ![r].at = "settled", ![r].outcome = outcome]
    /\ UNCHANGED <<uStatus, uData, uId, currentUploadId,
                   pvars, qvars, cvars, nvars, jvars, mvars>>

\* how a run ends: done when its update found the record, dropped when
\* updateUploadStatus returned undefined
Ended(r) ==
    IF uStatus \in {"none", "deleted"} \/ uRuns[r].uploadId # uId THEN "dropped" ELSE "done"

\* the continuation after the await: updateUploadStatus(id, "completed",
\* JSON.stringify(analysisResult))
MarkCompleted(r) ==
    /\ uRuns[r].at = "settled"
    /\ uRuns[r].outcome = "returned"
    /\ updateUploadStatus(uRuns[r].uploadId, "completed", "analysis")
    /\ uRuns' = [uRuns EXCEPT ![r].at = Ended(r)]
    /\ UNCHANGED <<uId, currentUploadId, pvars, qvars, cvars, nvars, jvars, mvars>>

\* the catch block: updateUploadStatus(id, "failed"); processAnalysisJob
\* throws again, and the queue may run the job once more while it has
\* attempts left
MarkFailed(r) ==
    /\ uRuns[r].at = "settled"
    /\ uRuns[r].outcome = "raised"
    /\ updateUploadStatus(uRuns[r].uploadId, "failed", "")
    /\ \/ uRuns' = [uRuns EXCEPT ![r].at = Ended(r)]
       \/ /\ uRuns[r].kind = "job"
          /\ uRuns[r].attempt < attempts
          /\ uRuns' = [uRuns EXCEPT ![r] = Run(uRuns[r].uploadId, "job", "scheduled", "none",
                                               uRuns[r].attempt + 1)]
    /\ UNCHANGED <<uId, currentUploadId, pvars, qvars, cvars, nvars, jvars, mvars>>

UNext ==
    \/ \E kind \in {"timer", "job"}, r \in 1..MaxRuns : PostUpload(kind, r)
    \/ \E kind \in {"timer", "job"}, r \in 1..MaxRuns : Reanalyze(kind, r)
    \/ DeleteUpload
    \/ \E r \in 1..MaxRuns :
          \/ TimerFires(r)
          \/ JobStarts(r)
          \/ AnalysisSettles(r)
          \/ MarkCompleted(r)
          \/ MarkFailed(r)

\* ------------------------------------------------------------ MemoryQueue
\* the jobs added to the queue in one run of the server
MaxJobs == 4

\* a processNext that does not look at the flag
processNextUnguarded(waiting) ==
    IF waiting = <<>>
    THEN jobs' = waiting /\ UNCHANGED <<processing, mActive, mStarted>>
    ELSE /\ processing' = TRUE
         /\ jobs' = Tail(waiting)
         /\ mActive' = mActive \cup {Head(waiting)}
         /\ mStarted' = Append(mStarted, Head(waiting))

\* processNext up to its await, on the Map as the caller left it: the first
\* entry of the Map is deleted and handed to processAnalysisJob
processNext(waiting) ==
    IF processing \/ waiting = <<>>
    THEN jobs' = waiting /\ UNCHANGED <<processing, mActive, mStarted>>
    ELSE /\ processing' = TRUE
         /\ jobs' = Tail(waiting)
         /\ mActive' = mActive \cup {Head(waiting)}
         /\ mStarted' = Append(mStarted, Head(waiting))

\* a finally block that sets no timer
processNextFinallyOnce == processing' = FALSE /\ UNCHANGED mTimers

\* the finally block of processNext
processNextFinally ==
    /\ processing' = FALSE
    /\ mTimers' = IF Len(jobs) > 0 THEN mTimers + 1 ELSE mTimers

\* addAnalysisJob without Redis: memoryQueue.add(data). The job ids are
\* numbered in the order of the calls; Date.now() and Math.random() are
\* taken to give every job an id of its own.
add ==
    /\ Len(jobs) + Len(mStarted) < MaxJobs
    /\ processNext(Append(jobs, Len(jobs) + Len(mStarted) + 1))
    /\ UNCHANGED <<mTimers, mFinished, pvars, qvars, cvars, nvars, jvars, uvars>>

\* the awaited processAnalysisJob of a job returns or throws; the catch
\* block logs, the finally block runs
JobSettles(id) ==
    /\ id \in mActive
    /\ mActive' = mActive \ {id}
    /\ \E outcome \in {"completed", "failed"} :
         mFinished' = Append(mFinished, [job |-> id, outcome |-> outcome])
    /\ processNextFinally
    /\ UNCHANGED <<jobs, mStarted, pvars, qvars, cvars, nvars, jvars, uvars>>

\* a callback of setTimeout(() => this.processNext(), 100) runs
RetriggerFires ==
    /\ mTimers > 0
    /\ mTimers' = mTimers - 1
    /\ processNext(jobs)
    /\ UNCHANGED <<mFinished, pvars, qvars, cvars, nvars, jvars, uvars>>

MNext == add \/ (\E id \in 1..MaxJobs : JobSettles(id)) \/ RetriggerFires

\* ---------------------------------------------------------- specifications
vars == <<pvars, qvars, cvars, nvars, jvars, uvars, mvars>>

\* what a specification does not use: no static method of the extractor, no
\* parse of a response and no route is under way, and no upload is stored
Unused ==
    /\ QIdle
    /\ cMethod = "none" /\ cInput = <<>> /\ cResult = undefined
    /\ sMatches = <<>> /\ sBest = NoMatch /\ kCall = NoConfidence
    /\ fCall = NoFormat
    /\ nMethod = "none" /\ nDoc = <<>> /\ nResult = Returned(Null)
    /\ nOutcomes = NoOutcomes /\ lastIndex = 0 /\ nSeen = NoCall
    /\ jMethod = "none" /\ jResult = NotLocated /\ bCall = NoBalanced
    /\ jText = [codeBlock |-> "none", balanced |-> "none", greedy |-> "none", lazy |-> "none"]
    /\ uStatus = "none" /\ uData = "null" /\ uId = 0 /\ currentUploadId = 1
    /\ uRuns = [r \in 1..MaxRuns |-> NoRun]
    /\ jobs = <<>> /\ processing = FALSE /\ mActive = {} /\ mTimers = 0
    /\ mStarted = <<>> /\ mFinished = <<>>

\* the components a specification does not run stay at rest
Init == PInit /\ Unused

Next == PNext

Spec == Init /\ [][Next]_vars

AtRest == PIdle /\ Unused

QSpec == AtRest /\ [][QNext]_vars

CSpec == AtRest /\ [][CNext]_vars

NSpec == AtRest /\ [][NNext]_vars

JSpec == AtRest /\ [][JNext]_vars

\* the event loop runs a due timer and the continuation of a settled promise,
\* the queue runs a waiting job, and the awaited analysis settles
USpec ==
    /\ AtRest
    /\ [][UNext]_vars
    /\ \A r \in 1..MaxRuns :
          /\ WF_vars(TimerFires(r))
          /\ WF_vars(JobStarts(r))
          /\ WF_vars(AnalysisSettles(r))
          /\ WF_vars(MarkCompleted(r))
          /\ WF_vars(MarkFailed(r))

\* the event loop runs a due timer, and the awaited analysis of a job settles
MSpec ==
    /\ AtRest
    /\ [][MNext]_vars
    /\ WF_vars(RetriggerFires)
    /\ \A id \in 1..MaxJobs : WF_vars(JobSettles(id))

\* ------------------------------------------------------------ properties
Settled == {"fulfilled", "rejected"}

Last(seq) == seq[Len(seq)]

ParallelResult == pc = "returned" /\ result.processingStats.executionMode = "parallel"

\* the execution passes a run has: parallel (flag on), sequential, recovery
\* (under analyzeDocumentWithFallback)
Passes ==
    (IF parallelProcessing THEN 1 ELSE 0) + 1
    + (IF entry = "analyzeDocumentWithFallback" THEN 1 ELSE 0)

\* C1 (as claimed): in sequential mode a failed Stage 0 or Stage 1 is replaced
\* by the stage's default record and the run goes on with the next stage; the
\* run aborts only when Stage 2 failed, and the abort is reported as stage "hr"
C1_SequentialOnlyHRAborts ==
    ~parallelProcessing =>
        /\ pc \in {"sequential1", "sequential2"} /\ 0 \in serviceFailed
              => businessOverview = FailedOverview("Extraction failed")
        /\ pc = "sequential2" /\ 1 \in serviceFailed
              => financialMetrics = createFailsafeMetrics
        /\ error # NoError
              => error.stage = "hr" /\ error.cause = "generateHRInsights"

\* C2: in parallel mode all three stages are in flight before anything is
\* read, every settled promise holds the outcome of its own stage whatever the
\* order of settling, a returned parallel result is made of the three slots,
\* and the code after Promise.allSettled runs only once no promise is pending
C2_SlotsOwned ==
    /\ pc = "parallel" => \A i \in Stages : stageResults[i].status # "idle"
    /\ \A i \in Stages :
         stageResults[i].status \in {"idle", "pending"}
            => stageResults[i].result = Unset(i)
    /\ stageResults[0].status \in Settled
          => /\ stageResults[0].status = "fulfilled"
             /\ 0 \in serviceFailed
                   <=> stageResults[0].result = FailedOverview("Extraction failed")
             /\ 0 \notin serviceFailed => stageResults[0].result \in DocOverviews
    /\ stageResults[1].status \in Settled
          => /\ stageResults[1].status = "fulfilled"
             /\ 1 \in serviceFailed
                   <=> stageResults[1].result = createFailsafeMetrics
             /\ 1 \notin serviceFailed => stageResults[1].result \in DocMetrics
    /\ stageResults[2].status \in Settled
          => /\ Len(hrAttempts) = 1
             /\ stageResults[2].status = "rejected" <=> hrAttempts[1] = "failed"
             /\ stageResults[2].status = "rejected"
                   <=> stageResults[2].result = NoInsights
    /\ ParallelResult
          => /\ result.businessOverview = stageResults[0].result
             /\ result.financialMetrics = stageResults[1].result
             /\ result.hrInsights = stageResults[2].result

C2_ParallelJoin ==
    /\ []C2_SlotsOwned
    /\ [][pc = "parallel" /\ pc' # "parallel"
            => \A i \in Stages : stageResults[i].status \in Settled]_vars

\* C2 witness: the HR stage was rejected first, the two other stages settled
\* after it with the document's data in their slots, and the join is ready
C2_Witness ==
    /\ pc = "parallel"
    /\ settleOrder = <<2, 1, 0>>
    /\ stageResults[2].status = "rejected"
    /\ stageResults[0].status = "fulfilled"
    /\ stageResults[0].result \in DocOverviews
    /\ stageResults[1].result \in DocMetrics

C4_FallbackDataFlagged ==
    pc = "returned" =>
        /\ result.businessOverview.sourceQuality # "document"
              => /\ result.processingStats.partialSuccess = "true"
                 /\ ~result.processingStats.stage0Success
        /\ result.financialMetrics.sourceText # "document"
              => /\ result.processingStats.partialSuccess = "true"
                 /\ ~result.processingStats.stage1Success

C5_RerunState ==
    /\ reruns <= 1
    /\ reruns = 1 <=> parallelError # "none"
    /\ reruns = 1 => parallelProcessing /\ pc \notin {"entry", "parallel"}
    /\ parallelError \in {"none", "generateHRInsights", "log", "calculateQualityScore"}
    /\ parallelError = "generateHRInsights" => hrAttempts[1] = "failed"

C7_NoStageRetry ==
    /\ invoked.stage0 <= 1
    /\ invoked.stage1 <= 1
    /\ pc = "returned" /\ 0 \in serviceFailed
          => result.businessOverview = FailedOverview("Extraction failed")
    /\ pc = "returned" /\ 1 \in serviceFailed
          => result.financialMetrics = createFailsafeMetrics

\* C7 witness: a parallel result returned after both Stage 0 and Stage 1 failed
C7_Witness ==
    /\ ParallelResult
    /\ serviceFailed = {0, 1}

\* C8: an error thrown by analyzeDocumentPipeline names stage "hr", never
\* "business_overview" or "financial", and is never the exception of the
\* Stage 0 or Stage 1 extractor
C8_FailureAttribution ==
    /\ error # NoError
          => /\ error.stage \in {"hr", "pipeline"}
             /\ error.cause
                   \notin {"extractBusinessOverview", "extractFinancialMetrics"}
    /\ pc = "thrown" => error # NoError

\* C8 witness: both Stage 0 and Stage 1 failed, then Stage 2 did, and the
\* caller got an error
C8_Witness ==
    /\ pc = "thrown"
    /\ serviceFailed = {0, 1}
    /\ error.cause = "generateHRInsights"

\* C9: calculateQualityScore gives at most 20 points for the overview, at most
\* 40 for the financial metrics and at most 40 for the HR insights, and what
\* it returns is their sum, between 0 and 100 (all in half points); nothing is
\* returned before its last statement or when it throws
C9_ScoreBounds ==
    /\ qParts.business \in 0..Pts(20)
    /\ qParts.financial \in 0..Pts(40)
    /\ qParts.hr \in 0..Pts(40)
    /\ qStep = "done"
          => /\ qResult \in 0..Pts(100)
             /\ qResult = qParts.business + qParts.financial + qParts.hr
    /\ qStep # "done" => qResult = Null

\* C9 witness: the full score, reached with the insight quantity at its cap
C9_Witness ==
    /\ qStep = "done"
    /\ qResult = Pts(100)
    /\ qParts.hr = Pts(40)

\* C10 (as claimed): computing the quality score never makes a run fail or
\* run again
C10_ScoreNeverGates ==
    /\ error.cause # "calculateQualityScore"
    /\ parallelError # "calculateQualityScore"

\* C11 (as claimed): in every returned FinancialMetrics whose profitLoss.amount
\* and revenue.current are both non-null the profit is at most the revenue, a
\* larger extracted profit having been replaced by null and flagged for review
C11_ProfitWithinRevenue ==
    pc = "returned" =>
        LET fm == result.financialMetrics
        IN  fm.profitLoss.amount # Null /\ fm.revenue.current # Null
                => fm.profitLoss.amount <= fm.revenue.current

\* a result of the mode `mode` holds, for Stage 0 and Stage 1, the document's
\* data when the stage did not fail and the extractor's default when it did
StageFieldsOf(mode) ==
    pc = "returned" /\ result.processingStats.executionMode = mode =>
        /\ 0 \in serviceFailed
              <=> result.businessOverview = FailedOverview("Extraction failed")
        /\ 0 \notin serviceFailed => result.businessOverview \in DocOverviews
        /\ 1 \in serviceFailed
              <=> result.financialMetrics = createFailsafeMetrics
        /\ 1 \notin serviceFailed => result.financialMetrics \in DocMetrics

\* C14: a parallel result and a sequential result hold the same Stage 0 and
\* Stage 1 fields for the same stage outcomes: the document's data of a stage
\* that did not fail, and a default record only for a stage that failed, the
\* same default in both modes
C14_ModesAgree ==
    /\ StageFieldsOf("parallel")
    /\ StageFieldsOf("sequential")

\* C14 witness: a parallel result without any stage failure, holding the
\* document's overview and metrics
C14_Witness ==
    /\ ParallelResult
    /\ serviceFailed = {}
    /\ result.businessOverview \in DocOverviews
    /\ result.financialMetrics \in DocMetrics

\* the symbols of the table that hold the dollar sign and more
DollarSymbols == { <<"H", "K", "$">>, <<"A", "$">>, <<"C", "$">>, <<"S", "$">> }

\* C20 (as claimed): neither resolution answers the bare "$" (USD) for a text
\* that holds HK$, A$, C$ or S$, and both answer USD for a text that holds no
\* supported symbol or code
C20_SpecificBeforeDollar ==
    cMethod \in {"getExtractedCurrency", "detectCurrency"} =>
        /\ (\E symbol \in DollarSymbols : Includes(cInput, symbol))
              => cResult.code # "USD"
        /\ (\A i \in DOMAIN SUPPORTED_CURRENCIES :
                /\ ~Includes(cInput, SUPPORTED_CURRENCIES[i].key)
                /\ ~Includes(toUpperCase(cInput), SUPPORTED_CURRENCIES[i].key)
                /\ ~Includes(toLowerCase(cInput),
                             toLowerCase(SUPPORTED_CURRENCIES[i].key)))
              => cResult.code = "USD"

\* the order of the candidates: the later year first and a year above none,
\* then the higher confidence, then the shorter context
Rank(m) == <<IF m.year = Null THEN 0 ELSE m.year, [high |-> 3, medium |-> 2, low |-> 1][m.confidence], 0 - m.contextLength>>

Beats(a, b) ==
    \/ Rank(a)[1] > Rank(b)[1]
    \/ Rank(a)[1] = Rank(b)[1] /\ Rank(a)[2] > Rank(b)[2]
    \/ Rank(a)[1] = Rank(b)[1] /\ Rank(a)[2] = Rank(b)[2] /\ Rank(a)[3] > Rank(b)[3]

\* C19: selectBestMatch returns one of its candidates that no other candidate
\* beats in the order (year, confidence, shorter context), and returns null
\* exactly when it is given no candidate
C19_BestMatch ==
    cMethod = "selectBestMatch" =>
        /\ sBest = NoMatch <=> sMatches = <<>>
        /\ sMatches # <<>> =>
              /\ \E i \in DOMAIN sMatches : sBest = sMatches[i]
              /\ \A j \in DOMAIN sMatches : ~Beats(sMatches[j], sBest)

\* three candidates that differ only in confidence or context, the best last
C19_Witness ==
    /\ cMethod = "selectBestMatch"
    /\ Len(sMatches) = 3
    /\ sMatches[1].year = sMatches[3].year /\ sMatches[2].year = sMatches[3].year
    /\ Beats(sMatches[3], sMatches[1]) /\ Beats(sMatches[3], sMatches[2])
    /\ sBest = sMatches[3]

\* C13: extractRevenue, extractProfit and extractEmployees never throw: each
\* call ends with a number (NaN included, which is of type number) or null,
\* also when the enhanced extraction inside it threw
C13_NeverThrows ==
    nMethod # "none" =>
        /\ ~nResult.thrown
        /\ nResult.value \in Nat \cup {Null, NaN}

\* the enhanced extraction threw and the fallback gave the value
C13_Witness ==
    /\ nMethod = "extractProfit"
    /\ nOutcomes.enhanced.thrown
    /\ ~nResult.thrown
    /\ nResult.value \in Nat \ {0}

\* C15: the extractor keeps no state between calls (the lastIndex of its
\* module-level pattern stays where it was), and a call returns what an
\* earlier call of the same method on the same text returned, whatever was
\* called in between
C15_Deterministic ==
    /\ lastIndex = 0
    /\ nMethod # "none" /\ nSeen.method = nMethod /\ nSeen.doc = nDoc
          => nResult = nSeen.result

\* a second call of extractRevenue on a text whose value the module-level
\* pattern gave
C15_Witness ==
    /\ nMethod = "extractRevenue"
    /\ nSeen.method = nMethod
    /\ nSeen.doc = nDoc
    /\ nOutcomes.enhanced.value = Null
    /\ nResult.value \in Nat \ {0}

\* the outcomes of the four revenue strategies in the claimed order
StrategyOrder ==
    <<nOutcomes.scaled, nOutcomes.full, nOutcomes.fiscal, nOutcomes.context>>

\* a strategy outcome that is a value within one million and one trillion
Valid(o) ==
    /\ ~o.thrown
    /\ o.value \notin {Null, NaN}
    /\ o.value >= MinRevenue /\ o.value <= MaxRevenue

\* C18: extractRevenueMultiStrategy returns the value of the first of the
\* strategies scaled, full-digit, fiscal, context that did not throw and gave
\* a value within the range, whatever the later ones gave, and null when
\* there is no such strategy
C18_FirstValidStrategy ==
    nMethod = "extractRevenue" =>
        /\ ~nOutcomes.enhanced.thrown
        /\ \A i \in 1..4 :
              Valid(StrategyOrder[i]) /\ (\A j \in 1..(i - 1) : ~Valid(StrategyOrder[j]))
                  => nOutcomes.enhanced.value = StrategyOrder[i].value
        /\ (\A i \in 1..4 : ~Valid(StrategyOrder[i])) => nOutcomes.enhanced.value = Null

\* the scaled strategy gave a value outside the range and the fiscal one a
\* value within it
C18_Witness ==
    /\ nMethod = "extractRevenue"
    /\ nOutcomes.scaled.value \notin {Null, NaN}
    /\ ~Valid(nOutcomes.scaled)
    /\ Valid(nOutcomes.fiscal)
    /\ nOutcomes.enhanced.value = nOutcomes.fiscal.value

\* C12 (as claimed): employees.total of a returned FinancialMetrics, if it is
\* not null, lies between 500 and 500000
C12_EmployeesWithinRange ==
    pc = "returned" =>
        LET total == result.financialMetrics.employees.total
        IN  total # Null => total >= MinEmployees /\ total <= MaxEmployees

\* C17 (as claimed): locating the JSON object of a response fails only when
\* the candidate of none of the four recovery strategies parses, and
\* otherwise the first strategy whose candidate parses gives the result
C17_FailsOnlyAfterRecovery ==
    jMethod # "none" =>
        LET parses == candidatesParse(jText)
        IN  /\ jResult.failed <=> \A i \in 1..4 : ~parses[i]
            /\ \A i \in 1..4 :
                  parses[i] /\ (\A j \in 1..(i - 1) : ~parses[j])
                      => jResult.strategy = i

\* a background analysis is between its start and its last update
InFlight(r) == uRuns[r].at \in {"scheduled", "analysing", "settled"}

\* C16: a record that is processing leaves that status; it becomes completed,
\* with the serialized analysis, exactly by the update of an analysis that
\* returned a result, and failed exactly by the update of one that raised
C16_LeavesProcessing ==
    /\ (uStatus = "processing") ~> (uStatus # "processing")
    /\ [][/\ uStatus' = "completed" /\ uStatus # "completed"
             => /\ uData' = "analysis"
                /\ \E r \in 1..MaxRuns : uRuns[r].outcome = "returned" /\ ~InFlight(r)'
          /\ uStatus' = "failed" /\ uStatus # "failed"
             => \E r \in 1..MaxRuns : uRuns[r].outcome = "raised" /\ uRuns[r].at = "settled"
          /\ \A r \in 1..MaxRuns :
                uRuns[r].at = "settled" /\ uRuns'[r].at # "settled"
                /\ uStatus \notin {"none", "deleted"} /\ uRuns[r].uploadId = uId
                   => uStatus' = IF uRuns[r].outcome = "returned" THEN "completed"
                                 ELSE "failed"]_vars

\* the analysis of a processing record raised and the record is failed
C16_Witness ==
    /\ uStatus = "failed"
    /\ \E r \in 1..MaxRuns : uRuns[r].outcome = "raised" /\ uRuns[r].at = "done"

\* evidence a is at most evidence b: every sign in favour that a has, b has,
\* and every sign against that b has, a has
AtMost(a, b) ==
    /\ (a.year # Null /\ a.year >= 2023) => (b.year # Null /\ b.year >= 2023)
    /\ a.context.exact => b.context.exact
    /\ a.context.words \cap {"current", "latest"} # {}
          => b.context.words \cap {"current", "latest"} # {}
    /\ b.context.words \cap {"underlying", "adjusted"} # {}
          => a.context.words \cap {"underlying", "adjusted"} # {}

\* C21: the confidence of a match is the bucket of its score (3 and more
\* high, 1 and 2 medium, less low), and no match with at most its evidence (no
\* more of a recent year, the exact keyword, current or latest; no less of
\* underlying or adjusted) has a higher confidence
C21_ConfidenceMonotone ==
    cMethod = "calculateConfidence" =>
        LET order == [high |-> 3, medium |-> 2, low |-> 1]
        IN  /\ kCall.confidence = "high" <=> kCall.score >= 3
            /\ kCall.confidence = "medium" <=> kCall.score \in {1, 2}
            /\ kCall.confidence = "low" <=> kCall.score <= 0
            /\ \A context \in Contexts("net profit"), year \in {Null, 2022, 2023, 2024} :
                  AtMost([context |-> context, year |-> year], kCall)
                      => order[calculateConfidence(context, year)] <= order[kCall.confidence]

\* a match of a recent year with the word current that the word underlying
\* keeps at medium
C21_Witness ==
    /\ cMethod = "calculateConfidence"
    /\ kCall.year = 2024
    /\ ~kCall.context.exact
    /\ kCall.context.words = {"current", "underlying"}
    /\ kCall.score = 2
    /\ kCall.confidence = "medium"

\* C22 (as claimed): extractEmployees returns null for a text that states
\* the head count as not disclosed, and a text that states only another
\* metric as not disclosed and gives a head count within the range under
\* the keyword total employees yields a head count
C22_NotDisclosedOwnMetricOnly ==
    nMethod = "extractEmployees" =>
        LET Withheld(s) == s.keyword = "employees not disclosed"
            Counted(s) ==
                /\ s.keyword = "total employees"
                /\ \E i \in DOMAIN s.value.numbers :
                      s.value.numbers[i] = [digits |-> 500, suffix |-> <<"+">>]
        IN  /\ (\E i \in DOMAIN nDoc : Withheld(nDoc[i])) => nResult.value = Null
            /\ /\ \A i \in DOMAIN nDoc : ~Withheld(nDoc[i])
               /\ \E i \in DOMAIN nDoc : Counted(nDoc[i])
               => nResult.value # Null

\* C23 (as claimed): for a text with an underlying net profit of 7 million
\* and a plain net profit of RM 5 million, in either order, extractProfit
\* returns the plain figure
C23_PlainNetProfitPreferred ==
    /\ nMethod = "extractProfit"
    /\ \E i \in DOMAIN nDoc : nDoc[i].keyword = "underlying net profit"
    /\ \E i \in DOMAIN nDoc :
          nDoc[i] = [keyword |-> "net profit",
                     value |-> Value(<<"R", "M">>, 5, scaleWord.million, FALSE)]
    => nResult.value = 5 * millionScale

\* C24: formatFinancialValue in currency mode writes a value of a billion or
\* more in billions with the suffix B, one of a million up to a billion in
\* millions with M, one of a thousand up to a million in thousands with K, a
\* smaller one unscaled and null as N/A (the scaled number to the nearest
\* tenth); the call changes nothing but its own result
C24_CurrencyThresholds ==
    [][cMethod' = "formatFinancialValue" =>
          LET value == fCall'.value
              text == fCall'.text
              Scaled(scale, suffix) ==
                  /\ text.suffix = suffix
                  /\ text.decimals = 1
                  /\ 2 * (text.number * (scale \div 10) - value) <= scale \div 10
                  /\ 2 * (value - text.number * (scale \div 10)) <= scale \div 10
          IN  /\ fCall'.type = "currency" =>
                    /\ value = Null => text.suffix = "N/A"
                    /\ value >= 1000000000 => Scaled(1000000000, "B")
                    /\ value >= 1000000 /\ value < 1000000000 => Scaled(1000000, "M")
                    /\ value >= 1000 /\ value < 1000000 => Scaled(1000, "K")
                    /\ value >= 0 /\ value < 1000 =>
                          text.suffix = "" /\ text.decimals = 0 /\ text.number = value
              /\ UNCHANGED <<cInput, cResult, sMatches, sBest, kCall,
                             pvars, qvars, nvars, jvars, uvars, mvars>>]_vars

\* exactly a billion was written as 1.0B
C24_Witness ==
    /\ cMethod = "formatFinancialValue"
    /\ fCall.type = "currency"
    /\ fCall.value = 1000000000
    /\ fCall.text = Formatted(<<"R", "M">>, 10, 1, "B")

\* C25 (as claimed): every value extractRevenue returns that is not null lies
\* within the range of validateRevenueRange, a million to a trillion
C25_RevenueWithinRange ==
    nMethod = "extractRevenue" /\ nResult.value # Null
        => AtLeast(nResult.value, MinRevenue) /\ nResult.value <= MaxRevenue

\* C26 (as claimed): findBalancedJSON returns the substring from the first
\* "{" of the text to the "}" that balances it whenever there is one, closing
\* braces before the first "{" change nothing, and it returns null only when
\* no balanced substring starts at the first "{"
C26_BalancedFromFirstBrace ==
    jMethod = "findBalancedJSON" =>
        LET text == bCall.text
            opening == {i \in DOMAIN text : text[i] = "{"}
            first == CHOOSE i \in opening : \A k \in opening : i <= k
            \* the braces open after the characters first..j
            Depth(j) == Cardinality({k \in first..j : text[k] = "{"})
                        - Cardinality({k \in first..j : text[k] = "}"})
            closing == {j \in DOMAIN text : j > first /\ Depth(j) = 0}
            balancing == CHOOSE j \in closing : \A k \in closing : j <= k
        IN  IF opening # {} /\ closing # {}
            THEN bCall.result = Substring(FALSE, SubSeq(text, first, balancing))
            ELSE bCall.result.null

\* C27: the in-memory queue has at most one job inside processAnalysisJob
\* at any time, and the flag is set while one is, for every interleaving of
\* add, the settling of jobs and the delayed callbacks of processNext
C27_OneJobAtATime ==
    /\ Cardinality(mActive) <= 1
    /\ mActive # {} => processing

\* a job runs, another waits, and a callback of the timer is still due (the
\* running job was started by an add within the delay)
C27_Witness ==
    /\ mActive # {}
    /\ Len(jobs) > 0
    /\ mTimers > 0

\* C28: every job added to the in-memory queue is in the end processed,
\* exactly once and in the order of insertion, and a job that failed is
\* removed and does not keep the later ones from running
C28_EveryJobOnceInOrder ==
    /\ [](/\ \A i \in DOMAIN mStarted : mStarted[i] = i
          /\ \A i, k \in DOMAIN mFinished :
                mFinished[i].job = mFinished[k].job => i = k
          /\ \A i \in DOMAIN mFinished, k \in DOMAIN jobs : mFinished[i].job # jobs[k])
    /\ \A id \in 1..MaxJobs :
          (\E k \in DOMAIN jobs : jobs[k] = id)
              ~> (\E i \in DOMAIN mFinished : mFinished[i].job = id)

\* the first job failed and the one added while it ran was completed
C28_Witness ==
    /\ Len(mFinished) >= 2
    /\ mFinished[1] = [job |-> 1, outcome |-> "failed"]
    /\ mFinished[2] = [job |-> 2, outcome |-> "completed"]
    /\ mStarted[2] = 2

\* C29 (as claimed): when the analysis of an upload and its reanalyses, all
\* started by the timers of the routes, have ended, the status of the record
\* is the one the newest of these runs produced (completed with its analysis
\* data when it returned, failed when it raised), whenever the older runs
\* ended
C29_NewestRunDecides ==
    LET runs == {r \in 1..MaxRuns : uRuns[r] # NoRun /\ uRuns[r].uploadId = uId}
        newest == CHOOSE r \in runs : \A k \in runs : k <= r
    IN  /\ uStatus \notin {"none", "deleted"}
        /\ Cardinality(runs) >= 2
        /\ \A r \in runs : uRuns[r].kind = "timer" /\ uRuns[r].at = "done"
        => IF uRuns[newest].outcome = "returned"
           THEN uStatus = "completed" /\ uData = "analysis"
           ELSE uStatus = "failed"

\* C30: a step of a background analysis whose upload is not in the store (it
\* was deleted, and another may have been uploaded since) leaves the store as
\* it is: no record is created or changed; and a record is created only
\* under an id above every id handed out before
C30_DeletedUploadUntouched ==
    [][/\ \A r \in 1..MaxRuns :
             /\ uRuns[r] # NoRun
             /\ uRuns'[r] # uRuns[r]
             /\ uStatus \in {"none", "deleted"} \/ uRuns[r].uploadId # uId
             => UNCHANGED <<uStatus, uData, uId, currentUploadId>>
       /\ uStatus \in {"none", "deleted"} /\ uStatus' \notin {"none", "deleted"}
             => /\ uId' > uId
                /\ \A r \in 1..MaxRuns : uRuns[r].uploadId < uId'
                /\ currentUploadId' > uId']_vars

\* the analysis of the deleted upload 1 returned after upload 2 was created;
\* its update was dropped and the record of upload 2 is still processing
C30_Witness ==
    /\ uId = 2
    /\ uStatus = "processing"
    /\ uData = "null"
    /\ \E r \in 1..MaxRuns :
          uRuns[r].uploadId = 1 /\ uRuns[r].outcome = "returned" /\ uRuns[r].at = "dropped"

====
